---- MODULE Spec2Model ----
(***************************************************************************)
(* ShadowLog background engine: deduplication, token bucket, action log,   *)
(* retry buffer, deletion engine and the handlers that tie them together.  *)
(* Every await on a host capability (storage, history, browsingData) is a  *)
(* suspension point: a handler is a process whose pc names the await it is *)
(* suspended at, and one action runs the synchronous code between two      *)
(* awaits.                                                                 *)
(***************************************************************************)
EXTENDS Integers, Sequences, FiniteSets, TLC

\* JS null / undefined in a numeric or string slot
Null == -1

(***************************************************************************)
(* Constants (shared/constants.js).  The collection limits and the attempt *)
(* ceiling are bounds of the model: scaled down so that each limit is      *)
(* reached inside the explored runs.  The time constants keep their values *)
(* in milliseconds.                                                        *)
(***************************************************************************)
BUFFER_MAX_ENTRIES == 2              \* 5000 in the source
BUFFER_MAX_AGE_MS == 604800000
BUFFER_MAX_ATTEMPTS == 2             \* 10 in the source
DEFAULT_MAX_DELETES_PER_MINUTE == 60
DEFAULT_COOLDOWN_SECONDS == 0
ACTION_LOG_MAX_ENTRIES == 2          \* 200 in the source
DEDUP_WINDOW_MS == 2000
CACHE_CLEAR_MIN_INTERVAL_MS == 60000
\* literals of main.js
REFILL_INTERVAL_MS == 60000
RETRY_SPACING_MS == 5000
DEDUP_PRUNE_SIZE == 1                \* 500 in the source
\* alarms (shared/constants.js)
BUFFER_FLUSH_INTERVAL_MINUTES == 5
ALARM_MIN_PERIOD_MINUTES == 1

(***************************************************************************)
(* Bounds of the exploration.                                              *)
(***************************************************************************)
MaxProcs == 2     \* handlers in flight at once
MaxEvents == 2    \* handler invocations delivered by the host
MaxTicks == 1     \* clock advances
MaxRules == 2     \* rules in a persisted list when the rules engine is examined

\* Date.now() when the background script is loaded
StartTime == 700000000

(***************************************************************************)
(* URLs.  A URL is named by its text; parseUrl is the WHATWG parser, given *)
(* here as the table of the URLs the model uses.  hostname is the sequence *)
(* of its labels, pathname the sequence of its characters.                 *)
(***************************************************************************)
UrlA == "https://a.com/x"
UrlAw == "http://www.a.com/x/"
UrlB == "https://b.com/y"
UrlC == "https://c.org/z"
UrlInternal == "about:blank"
\* the first page as typed in capitals into the options page's URL tester
UrlUpper == "HTTPS://A.COM/X"

\* pages of one site under its http/https, www/non-www, trailing-slash and
\* query-string variants, a sibling and a child of /path, the site's root,
\* two ftp URLs, the same path on another host, and a text that is no URL
UrlPathQ == "http://example.com/path?x=1"
UrlWwwPathSlashQ == "https://www.example.com/path/?x=1"
UrlPath == "http://example.com/path"
UrlWwwPath == "https://www.example.com/path"
UrlWwwOther == "https://www.example.com/other"
UrlWwwChildQ == "https://www.example.com/path/child?x=1"
UrlPathology == "https://example.com/pathology"
UrlRoot == "https://example.com/"
UrlFtpPath == "ftp://example.com/path"
UrlFtpWwwPath == "ftp://www.example.com/path/"
UrlOrgPath == "https://example.org/path"
UrlGarbage == "not a url"

ExampleCom == <<"example", "com">>
WwwExampleCom == <<"www", "example", "com">>
PagePath == <<"/", "p", "a", "t", "h">>

NoUrl == [protocol |-> "", hostname |-> <<>>, pathname |-> <<>>, search |-> "", ok |-> FALSE]

Parsed(protocol, hostname, pathname, search) ==
  [protocol |-> protocol, hostname |-> hostname, pathname |-> pathname, search |-> search,
   ok |-> TRUE]

parseUrl(url) ==
  CASE url = UrlA -> [protocol |-> "https:", hostname |-> <<"a", "com">>,
                      pathname |-> <<"/", "x">>, search |-> "", ok |-> TRUE]
    [] url = UrlAw -> [protocol |-> "http:", hostname |-> <<"www", "a", "com">>,
                       pathname |-> <<"/", "x", "/">>, search |-> "", ok |-> TRUE]
    [] url = UrlB -> [protocol |-> "https:", hostname |-> <<"b", "com">>,
                      pathname |-> <<"/", "y">>, search |-> "", ok |-> TRUE]
    [] url = UrlC -> [protocol |-> "https:", hostname |-> <<"c", "org">>,
                      pathname |-> <<"/", "z">>, search |-> "", ok |-> TRUE]
    [] url = UrlUpper -> [protocol |-> "https:", hostname |-> <<"a", "com">>,
                          pathname |-> <<"/", "X">>, search |-> "", ok |-> TRUE]
    [] url = UrlInternal -> [protocol |-> "about:", hostname |-> <<>>,
                             pathname |-> <<"b", "l", "a", "n", "k">>, search |-> "", ok |-> TRUE]
    [] url = UrlPathQ -> Parsed("http:", ExampleCom, PagePath, "?x=1")
    [] url = UrlWwwPathSlashQ -> Parsed("https:", WwwExampleCom, PagePath \o <<"/">>, "?x=1")
    [] url = UrlPath -> Parsed("http:", ExampleCom, PagePath, "")
    [] url = UrlWwwPath -> Parsed("https:", WwwExampleCom, PagePath, "")
    [] url = UrlWwwOther -> Parsed("https:", WwwExampleCom, <<"/", "o", "t", "h", "e", "r">>, "")
    [] url = UrlWwwChildQ -> Parsed("https:", WwwExampleCom,
                                    PagePath \o <<"/", "c", "h", "i", "l", "d">>, "?x=1")
    [] url = UrlPathology -> Parsed("https:", ExampleCom, PagePath \o <<"o", "l", "o", "g", "y">>, "")
    [] url = UrlRoot -> Parsed("https:", ExampleCom, <<"/">>, "")
    [] url = UrlFtpPath -> Parsed("ftp:", ExampleCom, PagePath, "")
    [] url = UrlFtpWwwPath -> Parsed("ftp:", WwwExampleCom, PagePath \o <<"/">>, "")
    [] url = UrlOrgPath -> Parsed("https:", <<"example", "org">>, PagePath, "")
    [] OTHER -> NoUrl

\* url.startsWith('about:') || url.startsWith('moz-extension:')
IsInternalUrl(url) == url = UrlInternal

extractHostname(url) ==
  LET parsed == parseUrl(url) IN IF parsed.ok THEN parsed.hostname ELSE <<>>

\* hostname.startsWith('www.')
StartsWithWww(hostname) == Len(hostname) >= 2 /\ hostname[1] = "www"

expandHostnames(hostname) ==
  IF StartsWithWww(hostname)
  THEN {hostname, Tail(hostname)}
  ELSE {hostname, <<"www">> \o hostname}

RECURSIVE StripTrailingSlashes(_)
StripTrailingSlashes(p) ==
  IF Len(p) > 0 /\ p[Len(p)] = "/" THEN StripTrailingSlashes(SubSeq(p, 1, Len(p) - 1)) ELSE p

normalizePathname(pathname) ==
  IF pathname = <<>> \/ pathname = <<"/">> THEN <<"/">>
  ELSE LET s == StripTrailingSlashes(pathname) IN IF s = <<>> THEN <<"/">> ELSE s

isHttpLikeProtocol(protocol) == protocol = "http:" \/ protocol = "https:"

hasCompatibleHistoryOrigin(source, candidate) ==
  /\ candidate.hostname \in expandHostnames(source.hostname)
  /\ IF isHttpLikeProtocol(source.protocol)
     THEN isHttpLikeProtocol(candidate.protocol)
     ELSE candidate.protocol = source.protocol

IsPrefix(s, t) == Len(s) <= Len(t) /\ SubSeq(t, 1, Len(s)) = s

\* faulty variant: a bare string prefix counts as a descendant
isPathPrefix(basePathname, candidatePathname) ==
  LET base == normalizePathname(basePathname)
      candidate == normalizePathname(candidatePathname)
  IN base = <<"/">> \/ IsPrefix(base, candidate)

isSameOrDescendantPath(basePathname, candidatePathname) ==
  LET base == normalizePathname(basePathname)
      candidate == normalizePathname(candidatePathname)
  IN \/ base = <<"/">>
     \/ candidate = base
     \/ IsPrefix(base \o <<"/">>, candidate)

\* faulty variant: the query strings are not compared
areEquivalentIgnoringSearch(source, candidate) ==
  /\ hasCompatibleHistoryOrigin(source, candidate)
  /\ normalizePathname(candidate.pathname) = normalizePathname(source.pathname)

areEquivalentHistoryUrlObjects(source, candidate) ==
  /\ hasCompatibleHistoryOrigin(source, candidate)
  /\ normalizePathname(candidate.pathname) = normalizePathname(source.pathname)
  /\ candidate.search = source.search

areEquivalentHistoryUrls(sourceUrl, candidateUrl) ==
  LET source == parseUrl(sourceUrl)
      candidate == parseUrl(candidateUrl)
  IN source.ok /\ candidate.ok /\ areEquivalentHistoryUrlObjects(source, candidate)

isHistoryUrlInSubtreeObjects(source, candidate) ==
  /\ hasCompatibleHistoryOrigin(source, candidate)
  /\ isSameOrDescendantPath(source.pathname, candidate.pathname)

isHistoryUrlInSubtree(sourceUrl, candidateUrl) ==
  LET source == parseUrl(sourceUrl)
      candidate == parseUrl(candidateUrl)
  IN source.ok /\ candidate.ok /\ isHistoryUrlInSubtreeObjects(source, candidate)

createHistoryUrlMatcher(source, includeSubpages, candidate) ==
  IF includeSubpages
  THEN isHistoryUrlInSubtreeObjects(source, candidate)
  ELSE areEquivalentHistoryUrlObjects(source, candidate)

\* the URLs of the items found that the matcher keeps
findMatchingHistoryUrls(url, includeSubpages, items) ==
  {candidateUrl \in items :
     /\ parseUrl(candidateUrl).ok
     /\ createHistoryUrlMatcher(parseUrl(url), includeSubpages, parseUrl(candidateUrl))}

(***************************************************************************)
(* Rules and patterns.  A pattern is named by its text; new RegExp(p, 'i') *)
(* and RegExp.test are the JS engine's, given as tables over the model's   *)
(* patterns and URLs.                                                      *)
(***************************************************************************)
PatA == "a\\.com"
PatCom == "\\.com"
PatB == "b\\.com"
PatBad == "("

RegexCompiles(pattern) == pattern \in {PatA, PatCom, PatB}

\* the pattern, taken letter for letter, is found in the text
RegexSearch(pattern, text) ==
  CASE pattern = PatA -> text \in {UrlA, UrlAw}
    [] pattern = PatCom -> text \in {UrlA, UrlAw, UrlB, UrlPathQ, UrlWwwPathSlashQ, UrlPath,
                                     UrlWwwPath, UrlWwwOther, UrlWwwChildQ, UrlPathology,
                                     UrlRoot, UrlFtpPath, UrlFtpWwwPath}
    [] pattern = PatB -> text = UrlB
    [] OTHER -> FALSE

\* String.prototype.toLowerCase over the model's URLs
ToLowerCase(url) == IF url = UrlUpper THEN UrlA ELSE url

\* faulty variant: the regex is compiled without the 'i' flag
RegexTestCaseSensitive(pattern, url) == RegexSearch(pattern, url)

\* new RegExp(pattern, 'i').test(url); the model's patterns are in lower case
RegexTest(pattern, url) == RegexSearch(pattern, ToLowerCase(url))

\* compileRegex: {regex, error}; regex is null for an empty or invalid pattern
compileRegex(pattern) ==
  IF pattern = "" \/ ~RegexCompiles(pattern)
  THEN [regex |-> "", error |-> TRUE]
  ELSE [regex |-> pattern, error |-> FALSE]

KeepAll == [history |-> "keep", cookies |-> "keep", cache |-> "keep", siteData |-> "keep"]
ActionKinds == {"history", "cookies", "cache", "siteData"}

RuleA ==
  [id |-> "rA", name |-> "A", enabled |-> TRUE,
   match |-> [urlRegex |-> <<PatA>>, excludeRegex |-> <<>>],
   actions |-> [history |-> "delete", cookies |-> "keep", cache |-> "keep", siteData |-> "keep"],
   timing |-> [asap |-> TRUE, onTabClose |-> FALSE, onBrowserClose |-> FALSE, periodicMinutes |-> Null],
   safety |-> [maxDeletesPerMinute |-> 1, cooldownSeconds |-> 0]]

RuleB ==
  [id |-> "rB", name |-> "B", enabled |-> TRUE,
   match |-> [urlRegex |-> <<PatCom>>, excludeRegex |-> <<>>],
   actions |-> [history |-> "keep", cookies |-> "delete", cache |-> "keep", siteData |-> "keep"],
   timing |-> [asap |-> FALSE, onTabClose |-> TRUE, onBrowserClose |-> TRUE, periodicMinutes |-> 1],
   safety |-> [maxDeletesPerMinute |-> DEFAULT_MAX_DELETES_PER_MINUTE, cooldownSeconds |-> 0]]

\* a rule that clears the cache on every visit of a.com
RuleCache ==
  [id |-> "rC", name |-> "C", enabled |-> TRUE,
   match |-> [urlRegex |-> <<PatA>>, excludeRegex |-> <<>>],
   actions |-> [history |-> "keep", cookies |-> "keep", cache |-> "delete", siteData |-> "keep"],
   timing |-> [asap |-> TRUE, onTabClose |-> FALSE, onBrowserClose |-> FALSE, periodicMinutes |-> -1],
   safety |-> [maxDeletesPerMinute |-> DEFAULT_MAX_DELETES_PER_MINUTE, cooldownSeconds |-> 0]]

\* the rule list persisted when the model starts
InitialRules == <<RuleA, RuleB>>
\* the rule lists the options page saves
RuleLists == {InitialRules, <<RuleA>>}

\* rule B with its interval edited, and rule B switched off
RuleBSlow == [RuleB EXCEPT !.timing.periodicMinutes = 2]
RuleBOff == [RuleB EXCEPT !.enabled = FALSE]
\* a rule for b.com and the rest of .com except a.com, with its own interval
RuleE ==
  [id |-> "rE", name |-> "E", enabled |-> TRUE,
   match |-> [urlRegex |-> <<PatB, PatCom>>, excludeRegex |-> <<PatA>>],
   actions |-> [history |-> "keep", cookies |-> "keep", cache |-> "keep", siteData |-> "delete"],
   timing |-> [asap |-> FALSE, onTabClose |-> FALSE, onBrowserClose |-> FALSE, periodicMinutes |-> 2],
   safety |-> [maxDeletesPerMinute |-> DEFAULT_MAX_DELETES_PER_MINUTE, cooldownSeconds |-> 0]]

\* a rule with an exclude pattern that does not compile next to one that does
RuleBadExclude ==
  [id |-> "rX", name |-> "X", enabled |-> TRUE,
   match |-> [urlRegex |-> <<PatCom>>, excludeRegex |-> <<PatBad, PatB>>],
   actions |-> [history |-> "keep", cookies |-> "keep", cache |-> "delete", siteData |-> "keep"],
   timing |-> [asap |-> TRUE, onTabClose |-> FALSE, onBrowserClose |-> FALSE, periodicMinutes |-> 3],
   safety |-> [maxDeletesPerMinute |-> DEFAULT_MAX_DELETES_PER_MINUTE, cooldownSeconds |-> 0]]

\* a rule with an include pattern that does not compile after one that does
RuleBadInclude ==
  [id |-> "rI", name |-> "I", enabled |-> TRUE,
   match |-> [urlRegex |-> <<PatA, PatBad>>, excludeRegex |-> <<>>],
   actions |-> [history |-> "delete", cookies |-> "delete", cache |-> "keep", siteData |-> "keep"],
   timing |-> [asap |-> TRUE, onTabClose |-> TRUE, onBrowserClose |-> FALSE, periodicMinutes |-> Null],
   safety |-> [maxDeletesPerMinute |-> DEFAULT_MAX_DELETES_PER_MINUTE, cooldownSeconds |-> 0]]

\* the rules a persisted list is drawn from when the rules engine is examined
EngineRules == {RuleA, RuleB, RuleBOff, RuleE, RuleBadExclude, RuleBadInclude}

\* the persisted lists of at most MaxRules rules with distinct ids
EngineRuleLists ==
  {l \in UNION {[1..n -> EngineRules] : n \in 0..MaxRules} :
     \A i, j \in 1..Len(l) : l[i].id = l[j].id => i = j}

\* the URLs the options page sends with TEST_URL
TestUrls == {UrlA, UrlB, UrlC, UrlUpper}

\* the rule lists the options page saves while the alarms are watched
AlarmRuleLists == {InitialRules, <<RuleA>>, <<RuleA, RuleBSlow>>, <<RuleA, RuleBOff>>}

(***************************************************************************)
(* Generic sequence helpers (Array.prototype.findIndex / filter / sort).   *)
(***************************************************************************)
Range(s) == {s[i] : i \in 1..Len(s)}

\* index of the first element satisfying P, 0 for JS -1
FindIndex(s, P(_)) ==
  IF \E i \in 1..Len(s) : P(s[i])
  THEN CHOOSE i \in 1..Len(s) : P(s[i]) /\ \A j \in 1..(i - 1) : ~P(s[j])
  ELSE 0

RemoveAt(s, i) == SubSeq(s, 1, i - 1) \o SubSeq(s, i + 1, Len(s))

RECURSIVE InsertByFirstSeen(_, _)
\* stable insertion: e goes after every element whose key is <= its own
InsertByFirstSeen(sorted, e) ==
  IF sorted = <<>> THEN <<e>>
  ELSE IF sorted[Len(sorted)].firstSeenAt <= e.firstSeenAt
       THEN Append(sorted, e)
       ELSE Append(InsertByFirstSeen(SubSeq(sorted, 1, Len(sorted) - 1), e), sorted[Len(sorted)])

RECURSIVE SortByFirstSeen(_)
\* buffer.sort((a, b) => a.firstSeenAt - b.firstSeenAt), a stable sort
SortByFirstSeen(s) ==
  IF s = <<>> THEN <<>>
  ELSE InsertByFirstSeen(SortByFirstSeen(SubSeq(s, 1, Len(s) - 1)), s[Len(s)])

(***************************************************************************)
(* Rules engine (background/rules-engine.js).                              *)
(***************************************************************************)
\* the compiled form of one rule: invalid exclude patterns are left out
compileRule(rule) ==
  [id |-> rule.id, name |-> rule.name,
   urlRegexCompiled |-> rule.match.urlRegex,
   excludeRegexCompiled |-> SelectSeq(rule.match.excludeRegex, LAMBDA p : ~compileRegex(p).error),
   actions |-> rule.actions, timing |-> rule.timing, safety |-> rule.safety]

\* faulty variant: one include pattern that compiles is enough to keep the rule
ruleCompilesAnyInclude(rule) ==
  rule.enabled /\ \E i \in 1..Len(rule.match.urlRegex) : ~compileRegex(rule.match.urlRegex[i]).error

ruleCompiles(rule) ==
  rule.enabled /\ \A i \in 1..Len(rule.match.urlRegex) : ~compileRegex(rule.match.urlRegex[i]).error

\* the cache loadRules builds from the persisted list
loadRulesResult(ruleList) ==
  LET kept == SelectSeq(ruleList, LAMBDA r : ruleCompiles(r))
  IN [i \in 1..Len(kept) |-> compileRule(kept[i])]

ruleMatches(rule, url) ==
  /\ \E i \in 1..Len(rule.urlRegexCompiled) : RegexTest(rule.urlRegexCompiled[i], url)
  /\ ~\E i \in 1..Len(rule.excludeRegexCompiled) : RegexTest(rule.excludeRegexCompiled[i], url)

evaluateUrl(compiled, url) ==
  LET hit == SelectSeq(compiled, LAMBDA r : ruleMatches(r, url))
  IN [i \in 1..Len(hit) |->
        [ruleId |-> hit[i].id, ruleName |-> hit[i].name, actions |-> hit[i].actions,
         timing |-> hit[i].timing, safety |-> hit[i].safety]]

RECURSIVE mergeActionsFrom(_, _)
mergeActionsFrom(merged, matchResults) ==
  IF matchResults = <<>> THEN merged
  ELSE LET m == Head(matchResults)
       IN mergeActionsFrom(
            [key \in ActionKinds |-> IF m.actions[key] = "delete" THEN "delete" ELSE merged[key]],
            Tail(matchResults))

\* faulty variant: the plan of the last match wins
mergeActionsLast(matchResults) ==
  IF matchResults = <<>> THEN KeepAll ELSE matchResults[Len(matchResults)].actions

mergeActions(matchResults) == mergeActionsFrom(KeepAll, matchResults)

RECURSIVE mergeTimingFrom(_, _)
mergeTimingFrom(merged, matchResults) ==
  IF matchResults = <<>> THEN merged
  ELSE LET m == Head(matchResults)
       IN mergeTimingFrom(
            [asap |-> merged.asap \/ m.timing.asap,
             onTabClose |-> merged.onTabClose \/ m.timing.onTabClose,
             onBrowserClose |-> merged.onBrowserClose \/ m.timing.onBrowserClose,
             periodicMinutes |->
               IF m.timing.periodicMinutes # Null
                  /\ (merged.periodicMinutes = Null \/ m.timing.periodicMinutes < merged.periodicMinutes)
               THEN m.timing.periodicMinutes
               ELSE merged.periodicMinutes],
            Tail(matchResults))

\* faulty variant: the interval of the last periodic match wins
mergeTimingLast(matchResults) ==
  LET periodic == SelectSeq(matchResults, LAMBDA m : m.timing.periodicMinutes # Null)
  IN [asap |-> \E i \in 1..Len(matchResults) : matchResults[i].timing.asap,
      onTabClose |-> \E i \in 1..Len(matchResults) : matchResults[i].timing.onTabClose,
      onBrowserClose |-> \E i \in 1..Len(matchResults) : matchResults[i].timing.onBrowserClose,
      periodicMinutes |-> IF periodic = <<>> THEN Null
                          ELSE periodic[Len(periodic)].timing.periodicMinutes]

mergeTiming(matchResults) ==
  mergeTimingFrom([asap |-> FALSE, onTabClose |-> FALSE, onBrowserClose |-> FALSE,
                   periodicMinutes |-> Null], matchResults)

RECURSIVE MinOf(_)
\* Math.min(...xs) of a non-empty list
MinOf(xs) ==
  IF Len(xs) = 1 THEN xs[1]
  ELSE LET r == MinOf(Tail(xs)) IN IF xs[1] < r THEN xs[1] ELSE r

(***************************************************************************)
(* Rule schema (shared/rule-schema.js): createRule and validateRule.  An   *)
(* item of an imported file is a record that may lack the actions, timing  *)
(* or safety part; createRule fills a missing part from its base rule.     *)
(***************************************************************************)
BaseActions == [history |-> "delete", cookies |-> "keep", cache |-> "keep", siteData |-> "keep"]
BaseTiming == [asap |-> TRUE, onTabClose |-> FALSE, onBrowserClose |-> FALSE, periodicMinutes |-> Null]
BaseSafety ==
  [maxDeletesPerMinute |-> DEFAULT_MAX_DELETES_PER_MINUTE, cooldownSeconds |-> DEFAULT_COOLDOWN_SECONDS]

createRule(overrides) ==
  [id |-> overrides.id, name |-> overrides.name, enabled |-> TRUE,
   match |-> overrides.match,
   actions |-> IF "actions" \in DOMAIN overrides THEN overrides.actions ELSE BaseActions,
   timing |-> IF "timing" \in DOMAIN overrides THEN overrides.timing ELSE BaseTiming,
   safety |-> IF "safety" \in DOMAIN overrides THEN overrides.safety ELSE BaseSafety]

\* one entry of validateRule's errors: which check failed, and on what
Msg(code, arg) == [code |-> code, arg |-> arg]

\* the action kinds in the order Object.entries lists them
ActionOrder == <<"history", "cookies", "cache", "siteData">>

\* the messages validateRule pushes, in the order it pushes them, for a rule
\* that has all its parts
validationErrors(rule) ==
  LET badInclude == SelectSeq(rule.match.urlRegex, LAMBDA p : compileRegex(p).error)
      badExclude == SelectSeq(rule.match.excludeRegex, LAMBDA p : compileRegex(p).error)
      badValue == SelectSeq(ActionOrder, LAMBDA key : rule.actions[key] \notin {"delete", "keep"})
      hasAnyDelete == \E key \in ActionKinds : rule.actions[key] = "delete"
      hasAnyTiming == \/ rule.timing.asap
                      \/ rule.timing.onTabClose
                      \/ rule.timing.onBrowserClose
                      \/ (rule.timing.periodicMinutes # Null /\ rule.timing.periodicMinutes > 0)
  IN (IF rule.id = "" THEN <<Msg("id", "")>> ELSE <<>>)
     \o (IF rule.name = "" THEN <<Msg("name", "")>> ELSE <<>>)
     \o (IF Len(rule.match.urlRegex) = 0 THEN <<Msg("noPattern", "")>>
         ELSE [i \in 1..Len(badInclude) |-> Msg("badInclude", badInclude[i])])
     \o [i \in 1..Len(badExclude) |-> Msg("badExclude", badExclude[i])]
     \o [i \in 1..Len(badValue) |-> Msg("badValue", badValue[i])]
     \o (IF ~hasAnyDelete THEN <<Msg("noDelete", "")>> ELSE <<>>)
     \o (IF ~hasAnyTiming THEN <<Msg("noTiming", "")>> ELSE <<>>)
     \o (IF rule.timing.periodicMinutes # Null /\ rule.timing.periodicMinutes < 1
         THEN <<Msg("periodicMinutes", "")>> ELSE <<>>)
     \o (IF rule.safety.maxDeletesPerMinute < 1 THEN <<Msg("maxDeletesPerMinute", "")>> ELSE <<>>)
     \o (IF rule.safety.cooldownSeconds < 0 THEN <<Msg("cooldownSeconds", "")>> ELSE <<>>)

\* faulty variant: validation stops at the first violation
validateRuleFirstError(rule) ==
  LET errors == validationErrors(rule)
  IN [valid |-> Len(errors) = 0, errors |-> IF errors = <<>> THEN <<>> ELSE <<Head(errors)>>]

validateRule(rule) ==
  LET errors == validationErrors(rule)
  IN [valid |-> Len(errors) = 0, errors |-> errors]

(***************************************************************************)
(* Retry buffer (Buffer module of background/main.js): what each operation *)
(* computes from the collection it read.                                   *)
(***************************************************************************)
\* faulty variant: a new entry counted as already attempted
NewBufferEntryAttempted(entry, t, id) ==
  [id |-> id, url |-> entry.url,
   hostname |-> IF entry.hostname # <<>> THEN entry.hostname ELSE extractHostname(entry.url),
   actions |-> entry.actions, ruleIdMatched |-> entry.ruleIdMatched,
   firstSeenAt |-> t, lastAttemptAt |-> t, attempts |-> 1, status |-> "pending"]

NewBufferEntry(entry, t, id) ==
  [id |-> id, url |-> entry.url,
   hostname |-> IF entry.hostname # <<>> THEN entry.hostname ELSE extractHostname(entry.url),
   actions |-> entry.actions, ruleIdMatched |-> entry.ruleIdMatched,
   firstSeenAt |-> t, lastAttemptAt |-> Null, attempts |-> 0, status |-> "pending"]

\* faulty variant: the entries over the cap are cut from the newest end
EvictNewest(buf) ==
  IF Len(buf) > BUFFER_MAX_ENTRIES
  THEN SubSeq(SortByFirstSeen(buf), 1, BUFFER_MAX_ENTRIES)
  ELSE buf

\* buffer.splice(0, buffer.length - BUFFER_MAX_ENTRIES) after the sort
EvictOldest(buf) ==
  IF Len(buf) > BUFFER_MAX_ENTRIES
  THEN SubSeq(SortByFirstSeen(buf), Len(buf) - BUFFER_MAX_ENTRIES + 1, Len(buf))
  ELSE buf

\* faulty variant: the lookup of a pending entry for the URL always misses
ExistingPendingMissed(buf, url) == 0

\* faulty variant: an entry of any status counts as the URL's pending entry
ExistingAnyStatus(buf, url) ==
  FindIndex(buf, LAMBDA e : e.url = url)

ExistingPending(buf, url) ==
  FindIndex(buf, LAMBDA e : e.url = url /\ e.status = "pending")

\* faulty variant: an entry for a URL not yet pending is never pushed
enqueueResultNoPush(buf, entry, t, id) ==
  LET existing == FindIndex(buf, LAMBDA e : e.url = entry.url /\ e.status = "pending")
  IN IF existing # 0
     THEN [buf EXCEPT ![existing].lastAttemptAt = t, ![existing].actions = entry.actions]
     ELSE buf

enqueueResult(buf, entry, t, id) ==
  LET existing == ExistingPending(buf, entry.url)
  IN IF existing # 0
     THEN [buf EXCEPT ![existing].lastAttemptAt = t, ![existing].actions = entry.actions]
     ELSE EvictOldest(Append(buf, NewBufferEntry(entry, t, id)))

\* faulty variant: an attempt exactly the retry spacing ago is old enough
IsReadyAtSpacing(e, t) ==
  /\ e.status = "pending"
  /\ e.attempts < BUFFER_MAX_ATTEMPTS
  /\ (e.lastAttemptAt = Null \/ t - e.lastAttemptAt >= RETRY_SPACING_MS)

IsReady(e, t) ==
  /\ e.status = "pending"
  /\ e.attempts < BUFFER_MAX_ATTEMPTS
  /\ (e.lastAttemptAt = Null \/ t - e.lastAttemptAt > RETRY_SPACING_MS)

dequeueReadyResult(buf, t) == SelectSeq(buf, LAMBDA e : IsReady(e, t))

IndexOfId(buf, entryId) == FindIndex(buf, LAMBDA e : e.id = entryId)

markSuccessResult(buf, entryId) ==
  LET idx == IndexOfId(buf, entryId)
  IN IF idx # 0 THEN RemoveAt(buf, idx) ELSE buf

\* faulty variant: the status is left pending at the ceiling
markFailedNoCeiling(buf, entryId, t) ==
  LET idx == IndexOfId(buf, entryId)
  IN IF idx = 0 THEN buf
     ELSE [buf EXCEPT ![idx].attempts = @ + 1, ![idx].lastAttemptAt = t]

markFailedResult(buf, entryId, t) ==
  LET idx == IndexOfId(buf, entryId)
  IN IF idx = 0 THEN buf
     ELSE [buf EXCEPT ![idx].attempts = @ + 1,
                      ![idx].lastAttemptAt = t,
                      ![idx].status = IF buf[idx].attempts + 1 >= BUFFER_MAX_ATTEMPTS
                                      THEN "failed" ELSE @]

trimExpiredResult(buf, t) ==
  SelectSeq(buf, LAMBDA e : e.firstSeenAt > t - BUFFER_MAX_AGE_MS)

(***************************************************************************)
(* Deletion engine: result records of the sub-operations.                  *)
(***************************************************************************)
NoResult == [present |-> FALSE, success |-> FALSE, partial |-> FALSE, skipped |-> FALSE]
OkResult == [present |-> TRUE, success |-> TRUE, partial |-> FALSE, skipped |-> FALSE]
PartialResult == [present |-> TRUE, success |-> TRUE, partial |-> TRUE, skipped |-> FALSE]
SkippedResult == [present |-> TRUE, success |-> TRUE, partial |-> FALSE, skipped |-> TRUE]
FailResult == [present |-> TRUE, success |-> FALSE, partial |-> FALSE, skipped |-> FALSE]

NoResults == [history |-> NoResult, siteData |-> NoResult, cache |-> NoResult, success |-> FALSE]

\* faulty variant: a partial result counts as successful
isOperationSuccessfulLenient(result) ==
  IF ~result.present THEN TRUE ELSE result.success

isOperationSuccessful(result) ==
  IF ~result.present THEN TRUE ELSE result.success /\ ~result.partial

\* faulty variant: a deleteUrl that throws ends the loop, nothing else is tried
deleteUrlsUntilError(urlsToDelete, throwing) ==
  IF throwing = {}
  THEN [deletedUrls |-> urlsToDelete, errors |-> {}]
  ELSE [deletedUrls |-> {}, errors |-> {CHOOSE u \in throwing : TRUE}]

\* the loop of deleteHistory: every URL of the set is tried, and lands in
\* deletedUrls or, when its deleteUrl throws, in errors
deleteUrls(urlsToDelete, throwing) ==
  [deletedUrls |-> urlsToDelete \ throwing, errors |-> urlsToDelete \cap throwing]

\* the tail of deleteHistory: classification of the deleted / failed URLs
deleteHistoryResult(deletedUrls, errors) ==
  IF deletedUrls = {} /\ errors # {} THEN FailResult
  ELSE IF errors # {} THEN PartialResult
  ELSE OkResult

\* actions of the FORGET_URL command
forgetActions == [history |-> "delete", cookies |-> "delete", cache |-> "keep", siteData |-> "delete"]

\* the log after logAction's updater has run on the log it read
logActionResult(log, logEntry) ==
  LET unshifted == <<logEntry>> \o log
  IN IF Len(unshifted) > ACTION_LOG_MAX_ENTRIES
     THEN SubSeq(unshifted, 1, ACTION_LOG_MAX_ENTRIES)
     ELSE unshifted

(***************************************************************************)
(* State.                                                                  *)
(***************************************************************************)
VARIABLES
  now,                \* Date.now()
  ticks,              \* clock advances so far
  events,             \* handler invocations delivered so far
  nextId,             \* source of crypto.randomUUID() values and of run ids
  rules,              \* storage.local shadowlog_rules
  buffer,             \* storage.local shadowlog_buffer
  actionLog,          \* storage.local shadowlog_action_log
  paused,             \* storage.session shadowlog_paused
  tabMap,             \* storage.session shadowlog_tab_map
  tokens,             \* rateLimiter.tokens
  lastRefill,         \* rateLimiter.lastRefill
  recentlyProcessed,  \* Map url -> timestamp
  compiledRules,      \* RulesEngine's compiled cache
  lastCacheClearTime, \* DeletionEngine's cache-clear timestamp
  history,            \* the host's history store
  alarms,             \* the host's alarms
  procs,              \* the handlers in flight, each suspended at an await
  obs                 \* record of the executeActions calls, cache clears, entries
                      \* marked failed, alarms unscheduled and restarts so far

storeVars == <<rules, buffer, actionLog>>
sessionVars == <<paused, tabMap>>
limiterVars == <<tokens, lastRefill>>
engineVars == <<tokens, lastRefill, recentlyProcessed, compiledRules, lastCacheClearTime>>
hostVars == <<history, alarms>>
clockVars == <<now, ticks>>
vars == <<now, ticks, events, nextId, rules, buffer, actionLog, paused, tabMap, tokens,
          lastRefill, recentlyProcessed, compiledRules, lastCacheClearTime, history, alarms,
          procs, obs>>

Procs == 1..MaxProcs
Tabs == {1}
Urls == {UrlA, UrlAw, UrlB, UrlC}
Triggers == {"asap", "tabClose", "browserClose"}

Idle ==
  [kind |-> "idle", pc |-> "idle", stack |-> <<>>, run |-> 0, url |-> "", trigger |-> "",
   tab |-> 0, paused |-> FALSE, actions |-> KeepAll, ruleNames |-> <<>>, ruleId |-> "",
   limited |-> FALSE, res |-> NoResults, snap |-> <<>>, arg |-> <<>>, hist |-> {}, deletedUrls |-> {}, errors |-> {},
   seen |-> {},
   queue |-> <<>>, t0 |-> 0]

IsIdle(p) == procs[p].kind = "idle"
FreeSlots == {p \in Procs : IsIdle(p)}
\* a new handler takes the lowest free slot
FreeSlot == CHOOSE p \in FreeSlots : \A q \in FreeSlots : p <= q
CanDeliver == events < MaxEvents /\ FreeSlots # {}

At(p, label) == procs[p].pc = label
SetProc(p, rec) == procs' = [procs EXCEPT ![p] = rec]

(***************************************************************************)
(* main.js: deduplication and token bucket.                                *)
(***************************************************************************)
\* faulty variant: the window's end counts as inside the window
wasRecentlyProcessedInclusive(url) ==
  /\ url \in DOMAIN recentlyProcessed
  /\ recentlyProcessed[url] # 0
  /\ now - recentlyProcessed[url] <= DEDUP_WINDOW_MS

wasRecentlyProcessed(url) ==
  /\ url \in DOMAIN recentlyProcessed
  /\ recentlyProcessed[url] # 0
  /\ now - recentlyProcessed[url] < DEDUP_WINDOW_MS

\* the Map after markProcessed(url)
markProcessedResult(url) ==
  LET set == [u \in (DOMAIN recentlyProcessed) \cup {url} |->
                IF u = url THEN now ELSE recentlyProcessed[u]]
      cutoff == now - DEDUP_WINDOW_MS
  IN IF Cardinality(DOMAIN set) > DEDUP_PRUNE_SIZE
     THEN [u \in {k \in DOMAIN set : ~(set[k] < cutoff)} |-> set[u]]
     ELSE set

\* faulty variant: the verdict does not look at the tokens left
acquireResultUnchecked(maxPerMinute) ==
  LET refill == now - lastRefill >= REFILL_INTERVAL_MS
      filled == IF refill
                THEN (IF maxPerMinute # 0 THEN maxPerMinute ELSE DEFAULT_MAX_DELETES_PER_MINUTE)
                ELSE tokens
  IN [tokens |-> IF filled > 0 THEN filled - 1 ELSE filled,
      lastRefill |-> IF refill THEN now ELSE lastRefill,
      ok |-> TRUE]

\* rateLimiter.acquire(maxPerMinute): the bucket after the call and its verdict
acquireResult(maxPerMinute) ==
  LET refill == now - lastRefill >= REFILL_INTERVAL_MS
      filled == IF refill
                THEN (IF maxPerMinute # 0 THEN maxPerMinute ELSE DEFAULT_MAX_DELETES_PER_MINUTE)
                ELSE tokens
  IN [tokens |-> IF filled > 0 THEN filled - 1 ELSE filled,
      lastRefill |-> IF refill THEN now ELSE lastRefill,
      ok |-> filled > 0]

\* one executeActions call: who made it, for which URL and plan, when; for a
\* processDeletion run its trigger, the cap it acquired its token with and the
\* refill window the token came from; for a flush the id of the buffer entry
ExecObs(path, run, url, trigger, actions, cap, window, entry) ==
  [path |-> path, run |-> run, url |-> url, trigger |-> trigger, actions |-> actions,
   at |-> now, cap |-> cap, window |-> window, entry |-> entry]

(***************************************************************************)
(* Resumption of the caller when an awaited call returns.  A label on the  *)
(* stack is the await the caller suspends at next, or names synchronous    *)
(* code of the caller that decides it.                                     *)
(***************************************************************************)
\* processDeletion(url, trigger) up to its await of the pause flag
PDCall(pr, run, url, trigger) ==
  [pr EXCEPT !.pc = "pdCheck", !.run = run, !.url = url, !.trigger = trigger,
             !.paused = paused, !.limited = FALSE, !.res = NoResults]

RECURSIVE Resume(_)
Resume(pr) ==
  IF pr.stack = <<>> THEN Idle
  ELSE LET label == Head(pr.stack)
           q == [pr EXCEPT !.stack = Tail(@)]
       IN CASE label = "pdAfterLog" ->
                 \* main.js:114 if (!result.success) await Buffer.enqueue(...)
                 IF q.res.success THEN Resume(q) ELSE [q EXCEPT !.pc = "enqRead"]
            [] label = "trAfterRemove" ->
                 \* main.js:153 if (url) await processDeletion(url, 'tabClose')
                 IF q.url # "" THEN PDCall(q, q.run, q.url, "tabClose") ELSE Resume(q)
            [] OTHER -> [q EXCEPT !.pc = label]

(***************************************************************************)
(* Deletion engine: executeActions up to its first await, and onwards from *)
(* each await.  pc exSearch awaits history.search, exDelete the deleteUrl  *)
(* calls, exSiteData browsingData.remove for the host names, exCache the   *)
(* global cache removal.                                                   *)
(***************************************************************************)
dataTypeSet(dataTypes) ==
  (IF dataTypes.cookies = "delete" THEN {"cookies"} ELSE {})
  \cup (IF dataTypes.siteData = "delete" THEN {"localStorage", "indexedDB", "serviceWorkers"} ELSE {})

\* the tail of executeActions: the overall verdict, and the caller resumes
ExecFinish(pr) ==
  Resume([pr EXCEPT !.res.success = /\ isOperationSuccessful(pr.res.history)
                                    /\ isOperationSuccessful(pr.res.siteData)
                                    /\ isOperationSuccessful(pr.res.cache)])

\* clearGlobalCache up to its await
ExecCache(pr) ==
  IF pr.actions.cache = "delete"
  THEN IF now - lastCacheClearTime < CACHE_CLEAR_MIN_INTERVAL_MS
       THEN ExecFinish([pr EXCEPT !.res.cache = SkippedResult])
       ELSE [pr EXCEPT !.pc = "exCache", !.t0 = now]
  ELSE ExecFinish(pr)

\* deleteSiteData up to its await
ExecSiteData(pr) ==
  IF pr.actions.cookies = "delete" \/ pr.actions.siteData = "delete"
  THEN IF extractHostname(pr.url) = <<>>
       THEN ExecCache([pr EXCEPT !.res.siteData = FailResult])
       ELSE IF dataTypeSet(pr.actions) = {}
            THEN ExecCache([pr EXCEPT !.res.siteData = SkippedResult])
            ELSE [pr EXCEPT !.pc = "exSiteData"]
  ELSE ExecCache(pr)

\* executeActions(pr.url, pr.actions), resuming the caller at label ret
ExecStart(pr, ret) ==
  LET q == [pr EXCEPT !.stack = <<ret>> \o @, !.res = NoResults, !.hist = {},
                      !.deletedUrls = {}, !.errors = {}]
  IN IF pr.actions.history = "delete"
     THEN IF parseUrl(pr.url).ok THEN [q EXCEPT !.pc = "exSearch"] ELSE [q EXCEPT !.pc = "exDelete"]
     ELSE ExecSiteData(q)

(***************************************************************************)
(* processDeletion from the pause flag to its next await.                  *)
(***************************************************************************)
\* faulty variant: the asap gate is missing
TriggerEnabledNoAsapGate(trigger, mergedTiming) ==
  /\ ~(trigger = "tabClose" /\ ~mergedTiming.onTabClose)
  /\ ~(trigger = "browserClose" /\ ~mergedTiming.onBrowserClose)

TriggerEnabled(trigger, mergedTiming) ==
  /\ ~(trigger = "asap" /\ ~mergedTiming.asap)
  /\ ~(trigger = "tabClose" /\ ~mergedTiming.onTabClose)
  /\ ~(trigger = "browserClose" /\ ~mergedTiming.onBrowserClose)

\* faulty variant: the pause flag is not looked at
pdSkipsNoPause(pr, matches, mergedTiming) ==
  \/ wasRecentlyProcessed(pr.url)
  \/ Len(matches) = 0
  \/ ~TriggerEnabled(pr.trigger, mergedTiming)

\* the gates of processDeletion: paused, recently processed, no matching rule,
\* trigger kind not enabled by the merged timing
pdSkips(pr, matches, mergedTiming) ==
  \/ pr.paused
  \/ wasRecentlyProcessed(pr.url)
  \/ Len(matches) = 0
  \/ ~TriggerEnabled(pr.trigger, mergedTiming)

PDCheck(p) ==
  LET pr == procs[p]
      matches == evaluateUrl(compiledRules, pr.url)
      mergedTiming == mergeTiming(matches)
      mergedActions == mergeActions(matches)
      ruleNames == [i \in 1..Len(matches) |-> matches[i].ruleName]
      minRate == MinOf([i \in 1..Len(matches) |-> matches[i].safety.maxDeletesPerMinute])
      acq == acquireResult(minRate)
      planned == [pr EXCEPT !.actions = mergedActions, !.ruleNames = ruleNames,
                            !.ruleId = matches[1].ruleId]
  IN /\ At(p, "pdCheck")
     /\ IF pdSkips(pr, matches, mergedTiming)
        THEN /\ SetProc(p, Resume(pr))
             /\ UNCHANGED <<limiterVars, recentlyProcessed, obs>>
        ELSE /\ tokens' = acq.tokens
             /\ lastRefill' = acq.lastRefill
             /\ IF ~acq.ok
                THEN /\ SetProc(p, [planned EXCEPT !.pc = "enqRead", !.limited = TRUE])
                     /\ UNCHANGED <<recentlyProcessed, obs>>
                ELSE /\ recentlyProcessed' = markProcessedResult(pr.url)
                     /\ SetProc(p, ExecStart([planned EXCEPT !.stack = <<"pdAfterLog">> \o @],
                                             "logRead"))
                     /\ obs' = obs \cup {ExecObs("pd", pr.run, pr.url, pr.trigger, mergedActions,
                                                  minRate, acq.lastRefill, 0)}
     /\ UNCHANGED <<clockVars, events, nextId, storeVars, sessionVars, compiledRules,
                    lastCacheClearTime, hostVars>>

(***************************************************************************)
(* executeActions from each of its awaits.                                 *)
(***************************************************************************)
\* findMatchingHistoryUrls: history.search answers, or throws and is caught
ExSearch(p) ==
  LET pr == procs[p]
  IN /\ At(p, "exSearch")
     /\ \E found \in {{h \in history : areEquivalentHistoryUrls(pr.url, h)}, {}} :
          SetProc(p, [pr EXCEPT !.pc = "exDelete", !.hist = found])
     /\ UNCHANGED <<clockVars, events, nextId, storeVars, sessionVars, engineVars, hostVars, obs>>

\* deleteHistory: one deleteUrl per URL of the set, each succeeding or throwing
ExDelete(p) ==
  LET pr == procs[p]
      urlsToDelete == {pr.url} \cup pr.hist
  IN /\ At(p, "exDelete")
     /\ \E throwing \in SUBSET urlsToDelete :
          LET out == deleteUrls(urlsToDelete, throwing)
          IN /\ history' = history \ out.deletedUrls
             /\ SetProc(p, ExecSiteData([pr EXCEPT !.deletedUrls = out.deletedUrls,
                                                   !.errors = out.errors,
                                                   !.res.history =
                                                     deleteHistoryResult(out.deletedUrls, out.errors)]))
     /\ UNCHANGED <<clockVars, events, nextId, storeVars, sessionVars, engineVars, alarms, obs>>

\* deleteSiteData: browsingData.remove({hostnames}, dataTypeSet) resolves or rejects
ExSiteData(p) ==
  LET pr == procs[p]
  IN /\ At(p, "exSiteData")
     /\ \E r \in {OkResult, FailResult} : SetProc(p, ExecCache([pr EXCEPT !.res.siteData = r]))
     /\ UNCHANGED <<clockVars, events, nextId, storeVars, sessionVars, engineVars, hostVars, obs>>

\* one resolved browsingData.remove({}, {cache: true}), at the time of the call
CacheObs(pr) ==
  [ExecObs("cache", pr.run, pr.url, "", pr.actions, 0, 0, 0) EXCEPT !.at = pr.t0]

\* faulty variant: the timestamp is set whether or not the removal resolved
lastClearAfterAttempt(calledAt, resolved) == calledAt

\* lastCacheClearTime after the awaited removal: set to the time of the call
\* when it resolved, left alone when it rejected
lastClearAfter(calledAt, resolved) ==
  IF resolved THEN calledAt ELSE lastCacheClearTime

\* clearGlobalCache: browsingData.remove({}, {cache: true}) resolves or rejects
ExCache(p) ==
  LET pr == procs[p]
  IN /\ At(p, "exCache")
     /\ \E resolved \in BOOLEAN :
          /\ lastCacheClearTime' = lastClearAfter(pr.t0, resolved)
          /\ SetProc(p, ExecFinish([pr EXCEPT !.res.cache =
                                                IF resolved THEN OkResult ELSE FailResult]))
          /\ obs' = IF resolved THEN obs \cup {CacheObs(pr)} ELSE obs
     /\ UNCHANGED <<clockVars, events, nextId, storeVars, sessionVars, limiterVars,
                    recentlyProcessed, compiledRules, hostVars>>

(***************************************************************************)
(* logAction: Storage.updateLocal reads the log, then writes the updated   *)
(* log back.                                                               *)
(***************************************************************************)
LogRead(p) ==
  /\ At(p, "logRead")
  /\ SetProc(p, [procs[p] EXCEPT !.pc = "logWrite", !.snap = actionLog])
  /\ UNCHANGED <<clockVars, events, nextId, storeVars, sessionVars, engineVars, hostVars, obs>>

LogEntry(pr) ==
  [timestamp |-> now, url |-> pr.url, ruleNames |-> pr.ruleNames, actions |-> pr.actions,
   result |-> pr.res, run |-> pr.run]

LogWrite(p) ==
  LET pr == procs[p]
  IN /\ At(p, "logWrite")
     /\ actionLog' = logActionResult(pr.snap, LogEntry(pr))
     /\ SetProc(p, Resume([pr EXCEPT !.snap = <<>>]))
     /\ UNCHANGED <<clockVars, events, nextId, rules, buffer, sessionVars, engineVars, hostVars, obs>>

(***************************************************************************)
(* Buffer.enqueue: getBuffer, then setBuffer of the updated collection.    *)
(***************************************************************************)
EnqRead(p) ==
  /\ At(p, "enqRead")
  /\ SetProc(p, [procs[p] EXCEPT !.pc = "enqWrite", !.snap = buffer])
  /\ UNCHANGED <<clockVars, events, nextId, storeVars, sessionVars, engineVars, hostVars, obs>>

EnqueueArg(pr) ==
  [url |-> pr.url, hostname |-> extractHostname(pr.url), actions |-> pr.actions,
   ruleIdMatched |-> pr.ruleId]

\* faulty variant: the update is applied to the collection stored at the time
\* of the write
EnqWriteStored(p) ==
  LET pr == procs[p]
  IN /\ At(p, "enqWrite")
     /\ buffer' = enqueueResult(buffer, EnqueueArg(pr), now, nextId)
     /\ nextId' = IF ExistingPending(buffer, pr.url) # 0 THEN nextId ELSE nextId + 1
     /\ SetProc(p, Resume([pr EXCEPT !.snap = <<>>]))
     /\ UNCHANGED <<clockVars, events, rules, actionLog, sessionVars, engineVars, hostVars, obs>>

EnqWrite(p) ==
  LET pr == procs[p]
  IN /\ At(p, "enqWrite")
     /\ buffer' = enqueueResult(pr.snap, EnqueueArg(pr), now, nextId)
     /\ nextId' = IF ExistingPending(pr.snap, pr.url) # 0 THEN nextId ELSE nextId + 1
     /\ SetProc(p, Resume([pr EXCEPT !.snap = <<>>]))
     /\ UNCHANGED <<clockVars, events, rules, actionLog, sessionVars, engineVars, hostVars, obs>>

(***************************************************************************)
(* Buffer.flush, markSuccess / markFailed, trimExpired.                    *)
(***************************************************************************)
\* faulty variant: the plan executed is that of the last entry of the queue
FlushExecLast(pr) ==
  ExecStart([pr EXCEPT !.url = pr.queue[Len(pr.queue)].url,
                       !.actions = pr.queue[Len(pr.queue)].actions], "markRead")

\* executeActions(entry.url, entry.actions) for the entry at the head of the queue
FlushExec(pr) ==
  ExecStart([pr EXCEPT !.url = Head(pr.queue).url, !.actions = Head(pr.queue).actions], "markRead")

FlushObs(pr, e) == ExecObs("flush", pr.run, e.url, "", e.actions, 0, 0, e.id)

\* markFailed has set the entry's status to failed
CeilingObs(pr, e) == ExecObs("ceiling", pr.run, e.url, "", e.actions, 0, 0, e.id)

\* markSuccess has stored the buffer without the entry
RemovedObs(pr, e) == ExecObs("removed", pr.run, e.url, "", e.actions, 0, 0, e.id)

\* faulty variant: a paused flush returns without executing anything
FlReadGated(p) ==
  LET pr == procs[p]
      ready == dequeueReadyResult(buffer, now)
  IN /\ At(p, "flRead")
     /\ IF ready = <<>> \/ paused
        THEN SetProc(p, Resume(pr)) /\ UNCHANGED obs
        ELSE /\ SetProc(p, FlushExec([pr EXCEPT !.queue = ready]))
             /\ obs' = obs \cup {FlushObs(pr, Head(ready))}
     /\ UNCHANGED <<clockVars, events, nextId, storeVars, sessionVars, engineVars, hostVars>>

\* dequeueReady answers; flush starts on the first ready entry
FlRead(p) ==
  LET pr == procs[p]
      ready == dequeueReadyResult(buffer, now)
  IN /\ At(p, "flRead")
     /\ IF ready = <<>>
        THEN SetProc(p, Resume(pr)) /\ UNCHANGED obs
        ELSE /\ SetProc(p, FlushExec([pr EXCEPT !.queue = ready]))
             /\ obs' = obs \cup {FlushObs(pr, Head(ready))}
     /\ UNCHANGED <<clockVars, events, nextId, storeVars, sessionVars, engineVars, hostVars>>

MarkRead(p) ==
  /\ At(p, "markRead")
  /\ SetProc(p, [procs[p] EXCEPT !.pc = "markWrite", !.snap = buffer])
  /\ UNCHANGED <<clockVars, events, nextId, storeVars, sessionVars, engineVars, hostVars, obs>>

\* markSuccess / markFailed write back, and flush goes on to the next ready entry
MarkWrite(p) ==
  LET pr == procs[p]
      entry == Head(pr.queue)
      rest == [pr EXCEPT !.queue = Tail(@), !.snap = <<>>]
  IN /\ At(p, "markWrite")
     /\ buffer' = IF IndexOfId(pr.snap, entry.id) = 0 THEN buffer
                  ELSE IF pr.res.success THEN markSuccessResult(pr.snap, entry.id)
                  ELSE markFailedResult(pr.snap, entry.id, now)
     /\ SetProc(p, IF rest.queue = <<>> THEN Resume(rest) ELSE FlushExec(rest))
     /\ obs' = obs \cup (IF rest.queue = <<>> THEN {} ELSE {FlushObs(pr, Head(rest.queue))})
                   \cup (IF IndexOfId(pr.snap, entry.id) # 0 /\ pr.res.success
                         THEN {RemovedObs(pr, entry)} ELSE {})
                   \cup (IF /\ IndexOfId(pr.snap, entry.id) # 0
                             /\ ~pr.res.success
                             /\ pr.snap[IndexOfId(pr.snap, entry.id)].attempts + 1
                                  >= BUFFER_MAX_ATTEMPTS
                          THEN {CeilingObs(pr, entry)} ELSE {})
     /\ UNCHANGED <<clockVars, events, nextId, rules, actionLog, sessionVars, engineVars, hostVars>>

TrimRead(p) ==
  /\ At(p, "trimRead")
  /\ SetProc(p, [procs[p] EXCEPT !.pc = "trimWrite", !.snap = buffer])
  /\ UNCHANGED <<clockVars, events, nextId, storeVars, sessionVars, engineVars, hostVars, obs>>

TrimWrite(p) ==
  LET pr == procs[p]
      trimmed == trimExpiredResult(pr.snap, now)
  IN /\ At(p, "trimWrite")
     /\ buffer' = IF Len(trimmed) # Len(pr.snap) THEN trimmed ELSE buffer
     /\ SetProc(p, Resume([pr EXCEPT !.snap = <<>>]))
     /\ UNCHANGED <<clockVars, events, nextId, rules, actionLog, sessionVars, engineVars, hostVars, obs>>

(***************************************************************************)
(* RulesEngine.loadRules: the persisted list is read, then the cache is    *)
(* rebuilt from it in one synchronous block.                               *)
(***************************************************************************)
\* faulty variant: the cache is emptied before the rules are awaited
LrReadClearing(p) ==
  /\ At(p, "lrRead")
  /\ SetProc(p, [procs[p] EXCEPT !.pc = "lrBuild", !.snap = rules])
  /\ compiledRules' = <<>>
  /\ UNCHANGED <<clockVars, events, nextId, storeVars, sessionVars, limiterVars,
                 recentlyProcessed, lastCacheClearTime, hostVars, obs>>

LrRead(p) ==
  /\ At(p, "lrRead")
  /\ SetProc(p, [procs[p] EXCEPT !.pc = "lrBuild", !.snap = rules])
  /\ UNCHANGED <<clockVars, events, nextId, storeVars, sessionVars, engineVars, hostVars, obs>>

LrBuild(p) ==
  LET pr == procs[p]
  IN /\ At(p, "lrBuild")
     /\ compiledRules' = loadRulesResult(pr.snap)
     /\ SetProc(p, Resume([pr EXCEPT !.snap = <<>>]))
     /\ UNCHANGED <<clockVars, events, nextId, storeVars, sessionVars, limiterVars,
                    recentlyProcessed, lastCacheClearTime, hostVars, obs>>

(***************************************************************************)
(* Scheduler: syncAlarms, ensureBufferFlushAlarm.                          *)
(***************************************************************************)
ALARM_PERIODIC_PREFIX == "shadowlog_periodic_"
ALARM_BUFFER_FLUSH == "shadowlog_buffer_flush"

PeriodicAlarmName(ruleId) == [prefix |-> ALARM_PERIODIC_PREFIX, id |-> ruleId]
FlushAlarmName == [prefix |-> ALARM_BUFFER_FLUSH, id |-> ""]
AlarmNames(as) == {a.name : a \in as}

Max(a, b) == IF a >= b THEN a ELSE b

RECURSIVE SetToSeq(_)
SetToSeq(S) == IF S = {} THEN <<>> ELSE LET x == CHOOSE y \in S : TRUE IN <<x>> \o SetToSeq(S \ {x})

IsPeriodicRule(rule) == rule.enabled /\ rule.timing.periodicMinutes # Null

\* the alarms syncAlarms creates, given the alarms it saw
alarmsToCreate(ruleList, existing) ==
  LET idx == {i \in 1..Len(ruleList) :
                /\ IsPeriodicRule(ruleList[i])
                /\ PeriodicAlarmName(ruleList[i].id) \notin AlarmNames(existing)}
      \* a later rule with the same id replaces the alarm an earlier one created
      last == {i \in idx : \A j \in idx : ruleList[j].id = ruleList[i].id => j <= i}
  IN {[name |-> PeriodicAlarmName(ruleList[i].id),
       delay |-> Max(ALARM_MIN_PERIOD_MINUTES, ruleList[i].timing.periodicMinutes),
       period |-> Max(ALARM_MIN_PERIOD_MINUTES, ruleList[i].timing.periodicMinutes),
       created |-> now] : i \in last}

\* the alarms syncAlarms clears, given the alarms it saw
orphanedAlarms(ruleList, existing) ==
  {n \in AlarmNames(existing) :
     /\ n.prefix = ALARM_PERIODIC_PREFIX
     /\ ~\E i \in 1..Len(ruleList) : IsPeriodicRule(ruleList[i]) /\ n = PeriodicAlarmName(ruleList[i].id)}

\* alarms.getAll answers
SaGetAll(p) ==
  /\ At(p, "saGetAll")
  /\ SetProc(p, [procs[p] EXCEPT !.pc = "saSync", !.seen = alarms])
  /\ UNCHANGED <<clockVars, events, nextId, storeVars, sessionVars, engineVars, hostVars, obs>>

\* the creations, and the first clear is issued
SaSync(p) ==
  LET pr == procs[p]
      created == alarmsToCreate(pr.arg, pr.seen)
      orphans == SetToSeq(orphanedAlarms(pr.arg, pr.seen))
  IN /\ At(p, "saSync")
     /\ alarms' = {a \in alarms : a.name \notin AlarmNames(created)} \cup created
     /\ SetProc(p, IF orphans = <<>> THEN Resume([pr EXCEPT !.seen = {}, !.arg = <<>>])
                   ELSE [pr EXCEPT !.pc = "saClear", !.queue = orphans])
     /\ UNCHANGED <<clockVars, events, nextId, storeVars, sessionVars, engineVars, history, obs>>

\* one alarms.clear(name) of an orphaned alarm takes effect
SaClear(p) ==
  LET pr == procs[p]
      rest == [pr EXCEPT !.queue = Tail(@)]
  IN /\ At(p, "saClear")
     /\ alarms' = {a \in alarms : a.name # Head(pr.queue)}
     /\ SetProc(p, IF rest.queue = <<>> THEN Resume([rest EXCEPT !.seen = {}, !.arg = <<>>])
                   ELSE rest)
     /\ UNCHANGED <<clockVars, events, nextId, storeVars, sessionVars, engineVars, history, obs>>

\* ensureBufferFlushAlarm: alarms.get answers
EfGet(p) ==
  /\ At(p, "efGet")
  /\ SetProc(p, [procs[p] EXCEPT !.pc = "efCreate",
                                 !.seen = {a \in alarms : a.name = FlushAlarmName}])
  /\ UNCHANGED <<clockVars, events, nextId, storeVars, sessionVars, engineVars, hostVars, obs>>

EfCreate(p) ==
  LET pr == procs[p]
  IN /\ At(p, "efCreate")
     /\ alarms' = IF pr.seen = {}
                  THEN {a \in alarms : a.name # FlushAlarmName}
                       \cup {[name |-> FlushAlarmName, delay |-> BUFFER_FLUSH_INTERVAL_MINUTES,
                              period |-> BUFFER_FLUSH_INTERVAL_MINUTES, created |-> now]}
                  ELSE alarms
     /\ SetProc(p, Resume([pr EXCEPT !.seen = {}]))
     /\ UNCHANGED <<clockVars, events, nextId, storeVars, sessionVars, engineVars, history, obs>>

(***************************************************************************)
(* bootstrap: loadRules, trimExpired, flush, then the alarms.              *)
(***************************************************************************)
\* faulty variant: the flush comes before the purge
BootstrapCallFlushFirst(run) ==
  [Idle EXCEPT !.kind = "bootstrap", !.run = run, !.pc = "lrRead",
               !.stack = <<"flRead", "trimRead", "bsRules", "efGet">>]

BootstrapCall(run) ==
  [Idle EXCEPT !.kind = "bootstrap", !.run = run, !.pc = "lrRead",
               !.stack = <<"trimRead", "flRead", "bsRules", "efGet">>]

\* Storage.getLocal(rules) answers and syncAlarms(rules) asks for the alarms
BsRules(p) ==
  /\ At(p, "bsRules")
  /\ SetProc(p, [procs[p] EXCEPT !.pc = "saGetAll", !.arg = rules])
  /\ UNCHANGED <<clockVars, events, nextId, storeVars, sessionVars, engineVars, hostVars, obs>>

(***************************************************************************)
(* Scheduler.handlePeriodicAlarm: the periodic sweep.                      *)
(***************************************************************************)
\* the order in which history.search lists the history
UrlOrder == <<UrlA, UrlAw, UrlB, UrlC>>

\* faulty variant: no item is skipped, matched or not
SkipUnmatchedNone(items) == items

RECURSIVE SkipUnmatched(_)
\* the items from the first one that some compiled rule matches
SkipUnmatched(items) ==
  IF items = <<>> THEN <<>>
  ELSE IF Len(evaluateUrl(compiledRules, Head(items))) > 0 THEN items
  ELSE SkipUnmatched(Tail(items))

\* the sweep's loop from the given history items to its next await
SweepFrom(p, items) ==
  LET pr == procs[p]
      todo == SkipUnmatched(items)
      mergedActions == mergeActions(evaluateUrl(compiledRules, Head(todo)))
  IN IF todo = <<>>
     THEN SetProc(p, Resume([pr EXCEPT !.queue = <<>>])) /\ UNCHANGED obs
     ELSE /\ SetProc(p, ExecStart([pr EXCEPT !.queue = todo, !.url = Head(todo),
                                             !.actions = mergedActions], "swNext"))
          /\ obs' = obs \cup {ExecObs("sweep", pr.run, Head(todo), "", mergedActions, 0, 0, 0)}

\* faulty variant: a disabled rule is swept like an enabled one
sweepSkipsMissingOnly(ruleList, ruleId) ==
  {i \in 1..Len(ruleList) : ruleList[i].id = ruleId} = {}

\* allRules.find(r => r.id === ruleId) finds no rule, or a disabled one
sweepSkips(ruleList, ruleId) ==
  LET found == {i \in 1..Len(ruleList) : ruleList[i].id = ruleId}
      rule == ruleList[CHOOSE i \in found : \A j \in found : i <= j]
  IN found = {} \/ ~rule.enabled

\* the alarm handler has cleared the alarm of a rule it no longer sweeps
UnscheduleObs(pr) == ExecObs("unschedule", pr.run, "", "", KeepAll, 0, 0, 0)

\* the rule list answers: the alarm's rule is looked up
SwRules(p) ==
  LET pr == procs[p]
  IN /\ At(p, "swRules")
     /\ SetProc(p, IF sweepSkips(rules, pr.ruleId)
                   THEN [pr EXCEPT !.pc = "swClear"]
                   ELSE [pr EXCEPT !.pc = "lrRead", !.stack = <<"swSearch">> \o @])
     /\ UNCHANGED <<clockVars, events, nextId, storeVars, sessionVars, engineVars, hostVars, obs>>

\* alarms.clear(alarmName) takes effect
SwClear(p) ==
  LET pr == procs[p]
  IN /\ At(p, "swClear")
     /\ alarms' = {a \in alarms : a.name # PeriodicAlarmName(pr.ruleId)}
     /\ SetProc(p, Resume(pr))
     /\ obs' = obs \cup {UnscheduleObs(pr)}
     /\ UNCHANGED <<clockVars, events, nextId, storeVars, sessionVars, engineVars, history>>

\* history.search answers with the whole history, or throws and the sweep ends
SwSearch(p) ==
  /\ At(p, "swSearch")
  /\ \/ SweepFrom(p, SelectSeq(UrlOrder, LAMBDA u : u \in history))
     \/ SetProc(p, Resume(procs[p])) /\ UNCHANGED obs
  /\ UNCHANGED <<clockVars, events, nextId, storeVars, sessionVars, engineVars, hostVars>>

\* executeActions has returned for one item; on to the next
SwNext(p) ==
  /\ At(p, "swNext")
  /\ SweepFrom(p, Tail(procs[p].queue))
  /\ UNCHANGED <<clockVars, events, nextId, storeVars, sessionVars, engineVars, hostVars>>

(***************************************************************************)
(* TabTracker: trackNavigation, getTabUrl, removeTab.                      *)
(***************************************************************************)
TmRead(p) ==
  /\ At(p, "tmRead")
  /\ SetProc(p, [procs[p] EXCEPT !.pc = "tmWrite", !.snap = tabMap])
  /\ UNCHANGED <<clockVars, events, nextId, storeVars, sessionVars, engineVars, hostVars, obs>>

\* setMap of the map read, with the tab recorded (trackNavigation) or deleted (removeTab)
TmWrite(p) ==
  LET pr == procs[p]
      map == pr.snap
  IN /\ At(p, "tmWrite")
     /\ tabMap' = IF pr.kind = "track"
                  THEN [t \in (DOMAIN map) \cup {pr.tab} |->
                          IF t = pr.tab THEN [url |-> pr.url, timestamp |-> now] ELSE map[t]]
                  ELSE [t \in (DOMAIN map) \ {pr.tab} |-> map[t]]
     /\ SetProc(p, Resume([pr EXCEPT !.snap = <<>>]))
     /\ UNCHANGED <<clockVars, events, nextId, storeVars, paused, engineVars, hostVars, obs>>

\* handleTabRemoved: getTabUrl answers and removeTab asks for the map
TrGetUrl(p) ==
  LET pr == procs[p]
  IN /\ At(p, "trGetUrl")
     /\ SetProc(p, [pr EXCEPT !.pc = "tmRead", !.stack = <<"trAfterRemove">>,
                              !.url = IF pr.tab \in DOMAIN tabMap THEN tabMap[pr.tab].url ELSE ""])
     /\ UNCHANGED <<clockVars, events, nextId, storeVars, sessionVars, engineVars, hostVars, obs>>

(***************************************************************************)
(* handleWindowRemoved.                                                    *)
(***************************************************************************)
\* windows.getAll answers: some windows remain, or none
WrGetAll(p) ==
  LET pr == procs[p]
  IN /\ At(p, "wrGetAll")
     /\ \E remaining \in {0, 1} :
          SetProc(p, IF remaining = 0
                     THEN [pr EXCEPT !.pc = "flRead", !.stack = <<"wrTracked">>]
                     ELSE Resume(pr))
     /\ UNCHANGED <<clockVars, events, nextId, storeVars, sessionVars, engineVars, hostVars, obs>>

\* the loop over the tracked tabs, from the given URLs to its next await
WindowFrom(p, urls) ==
  LET pr == procs[p]
      todo == SelectSeq(urls, LAMBDA u : u # "")
  IN IF todo = <<>>
     THEN SetProc(p, Resume([pr EXCEPT !.queue = <<>>])) /\ UNCHANGED nextId
     ELSE /\ SetProc(p, PDCall([pr EXCEPT !.queue = todo, !.stack = <<"wrNext">> \o @],
                               nextId, Head(todo), "browserClose"))
          /\ nextId' = nextId + 1

\* getAllTracked answers
WrTracked(p) ==
  /\ At(p, "wrTracked")
  /\ WindowFrom(p, LET tabs == SetToSeq(DOMAIN tabMap) IN [i \in 1..Len(tabs) |-> tabMap[tabs[i]].url])
  /\ UNCHANGED <<clockVars, events, storeVars, sessionVars, engineVars, hostVars, obs>>

\* processDeletion has returned for one tracked tab; on to the next
WrNext(p) ==
  /\ At(p, "wrNext")
  /\ WindowFrom(p, Tail(procs[p].queue))
  /\ UNCHANGED <<clockVars, events, storeVars, sessionVars, engineVars, hostVars, obs>>

(***************************************************************************)
(* Events delivered by the host: each starts a handler, which runs to its  *)
(* first await.                                                            *)
(***************************************************************************)
Delivered == events' = events + 1

\* history.onVisited: the visit is in the history when the listener runs
HandleVisited(url) ==
  /\ CanDeliver
  /\ ~IsInternalUrl(url)
  /\ history' = history \cup {url}
  /\ SetProc(FreeSlot, PDCall([Idle EXCEPT !.kind = "visited"], nextId, url, "asap"))
  /\ nextId' = nextId + 1
  /\ Delivered
  /\ UNCHANGED <<clockVars, storeVars, sessionVars, engineVars, alarms, obs>>

\* webNavigation.onCommitted for the top frame: trackNavigation is started and
\* not awaited, then processDeletion
HandleNavigation(tabId, url) ==
  /\ CanDeliver
  /\ Cardinality(FreeSlots) >= 2
  /\ ~IsInternalUrl(url)
  /\ LET p1 == FreeSlot
         p2 == CHOOSE p \in FreeSlots \ {p1} : \A q \in FreeSlots \ {p1} : p <= q
     IN procs' = [procs EXCEPT
                    ![p1] = [Idle EXCEPT !.kind = "track", !.pc = "tmRead", !.run = nextId,
                                         !.tab = tabId, !.url = url],
                    ![p2] = PDCall([Idle EXCEPT !.kind = "navigation"], nextId, url, "asap")]
  /\ nextId' = nextId + 1
  /\ Delivered
  /\ UNCHANGED <<clockVars, storeVars, sessionVars, engineVars, hostVars, obs>>

\* tabs.onRemoved
HandleTabRemoved(tabId) ==
  /\ CanDeliver
  /\ SetProc(FreeSlot, [Idle EXCEPT !.kind = "tabRemoved", !.pc = "trGetUrl", !.run = nextId,
                                    !.tab = tabId])
  /\ nextId' = nextId + 1
  /\ Delivered
  /\ UNCHANGED <<clockVars, storeVars, sessionVars, engineVars, hostVars, obs>>

\* windows.onRemoved
HandleWindowRemoved ==
  /\ CanDeliver
  /\ SetProc(FreeSlot, [Idle EXCEPT !.kind = "windowRemoved", !.pc = "wrGetAll", !.run = nextId])
  /\ nextId' = nextId + 1
  /\ Delivered
  /\ UNCHANGED <<clockVars, storeVars, sessionVars, engineVars, hostVars, obs>>

\* alarms.onAlarm -> Scheduler.handleAlarm
HandleAlarm(alarm) ==
  /\ CanDeliver
  /\ alarm \in alarms
  /\ SetProc(FreeSlot,
             IF alarm.name = FlushAlarmName
             THEN [Idle EXCEPT !.kind = "alarm", !.pc = "flRead", !.run = nextId]
             ELSE IF alarm.name.prefix = ALARM_PERIODIC_PREFIX
             THEN [Idle EXCEPT !.kind = "alarm", !.pc = "swRules", !.run = nextId,
                               !.ruleId = alarm.name.id]
             ELSE Idle)
  /\ nextId' = nextId + 1
  /\ Delivered
  /\ UNCHANGED <<clockVars, storeVars, sessionVars, engineVars, hostVars, obs>>

\* runtime.onMessage SET_PAUSED
SetPaused(value) ==
  /\ events < MaxEvents
  /\ paused' = value
  /\ Delivered
  /\ UNCHANGED <<clockVars, nextId, storeVars, tabMap, engineVars, hostVars, procs, obs>>

\* runtime.onMessage FORGET_URL
ForgetUrl(url) ==
  /\ CanDeliver
  /\ url # ""
  /\ SetProc(FreeSlot, ExecStart([Idle EXCEPT !.kind = "forget", !.run = nextId, !.url = url,
                                              !.actions = forgetActions,
                                              !.ruleNames = <<"Manual forget">>], "logRead"))
  /\ obs' = obs \cup {ExecObs("forget", nextId, url, "", forgetActions, 0, 0, 0)}
  /\ nextId' = nextId + 1
  /\ Delivered
  /\ UNCHANGED <<clockVars, storeVars, sessionVars, engineVars, hostVars>>

\* one answer of a history matcher
MatchObs(via, run, sourceUrl, candidateUrl, includeSubpages, accepted) ==
  [path |-> "match", via |-> via, run |-> run, source |-> sourceUrl, candidate |-> candidateUrl,
   includeSubpages |-> includeSubpages, accepted |-> accepted]

\* DeletionEngine.areEquivalentHistoryUrls / isHistoryUrlInSubtree, called on two URLs
MatchUrls(sourceUrl, candidateUrl, includeSubpages) ==
  /\ events < MaxEvents
  /\ obs' = obs \cup {MatchObs("call", events, sourceUrl, candidateUrl, includeSubpages,
                               IF includeSubpages
                               THEN isHistoryUrlInSubtree(sourceUrl, candidateUrl)
                               ELSE areEquivalentHistoryUrls(sourceUrl, candidateUrl))}
  /\ Delivered
  /\ UNCHANGED <<clockVars, nextId, storeVars, sessionVars, engineVars, hostVars, procs>>

\* DeletionEngine.deleteHistory(url, {includeSubpages}), up to its first await
DeleteHistory(url, includeSubpages) ==
  /\ CanDeliver
  /\ url # ""
  /\ SetProc(FreeSlot, [Idle EXCEPT !.kind = "deleteHistory", !.pc = "dhSearch", !.run = nextId,
                                    !.url = url, !.arg = <<includeSubpages>>])
  /\ nextId' = nextId + 1
  /\ Delivered
  /\ UNCHANGED <<clockVars, storeVars, sessionVars, engineVars, hostVars, obs>>

\* findMatchingHistoryUrls: no search for a URL that does not parse; otherwise
\* history.search answers and every item goes through the matcher, or it
\* throws and is caught
DhSearch(p) ==
  LET pr == procs[p]
      includeSubpages == pr.arg[1]
      source == parseUrl(pr.url)
      matched == findMatchingHistoryUrls(pr.url, includeSubpages, history)
  IN /\ At(p, "dhSearch")
     /\ IF ~source.ok
        THEN /\ SetProc(p, [pr EXCEPT !.pc = "dhDelete", !.hist = {}])
             /\ obs' = obs
        ELSE \/ /\ SetProc(p, [pr EXCEPT !.pc = "dhDelete", !.hist = matched])
                /\ obs' = obs \cup {MatchObs("search", pr.run, pr.url, candidateUrl, includeSubpages,
                                              candidateUrl \in matched) : candidateUrl \in history}
             \/ /\ SetProc(p, [pr EXCEPT !.pc = "dhDelete", !.hist = {}])
                /\ obs' = obs
     /\ UNCHANGED <<clockVars, events, nextId, storeVars, sessionVars, engineVars, hostVars>>

\* deleteHistory: one deleteUrl per URL of the set, each succeeding or throwing
DhDelete(p) ==
  LET pr == procs[p]
      urlsToDelete == {pr.url} \cup pr.hist
  IN /\ At(p, "dhDelete")
     /\ \E throwing \in SUBSET urlsToDelete :
          history' = history \ deleteUrls(urlsToDelete, throwing).deletedUrls
     /\ SetProc(p, Idle)
     /\ UNCHANGED <<clockVars, events, nextId, storeVars, sessionVars, engineVars, alarms, obs>>

\* runtime.onMessage TEST_URL: loadRules() is awaited first
HandleTestUrl(url) ==
  /\ CanDeliver
  /\ url # ""
  /\ SetProc(FreeSlot, [Idle EXCEPT !.kind = "testUrl", !.pc = "lrRead", !.run = nextId,
                                    !.url = url, !.stack = <<"tuReply">>])
  /\ nextId' = nextId + 1
  /\ Delivered
  /\ UNCHANGED <<clockVars, storeVars, sessionVars, engineVars, hostVars, obs>>

\* the response to TEST_URL; a merged plan that is null is the empty sequence
TestUrlObs(pr, matches) ==
  [path |-> "test", run |-> pr.run, url |-> pr.url, matches |-> matches,
   mergedActions |-> IF Len(matches) > 0 THEN <<mergeActions(matches)>> ELSE <<>>,
   mergedTiming |-> IF Len(matches) > 0 THEN <<mergeTiming(matches)>> ELSE <<>>,
   hostname |-> extractHostname(pr.url),
   hostnames |-> IF extractHostname(pr.url) # <<>>
                 THEN expandHostnames(extractHostname(pr.url)) ELSE {}]

\* loadRules has returned: the URL is evaluated and the response is sent
TuReply(p) ==
  LET pr == procs[p]
  IN /\ At(p, "tuReply")
     /\ obs' = obs \cup {TestUrlObs(pr, evaluateUrl(compiledRules, pr.url))}
     /\ SetProc(p, Resume(pr))
     /\ UNCHANGED <<clockVars, events, nextId, storeVars, sessionVars, engineVars, hostVars>>

\* runtime.onMessage CLEAR_ACTION_LOG
ClearActionLog ==
  /\ events < MaxEvents
  /\ actionLog' = <<>>
  /\ Delivered
  /\ UNCHANGED <<clockVars, nextId, rules, buffer, sessionVars, engineVars, hostVars, procs, obs>>

\* runtime.onMessage CLEAR_BUFFER -> Buffer.clear
ClearBuffer ==
  /\ events < MaxEvents
  /\ buffer' = <<>>
  /\ Delivered
  /\ UNCHANGED <<clockVars, nextId, rules, actionLog, sessionVars, engineVars, hostVars, procs, obs>>

\* runtime.onStartup -> bootstrap()
HandleStartup ==
  /\ CanDeliver
  /\ SetProc(FreeSlot, BootstrapCall(nextId))
  /\ nextId' = nextId + 1
  /\ Delivered
  /\ UNCHANGED <<clockVars, storeVars, sessionVars, engineVars, hostVars, obs>>

\* the options page saves the rule list: storage.onChanged -> handleStorageChanged,
\* loadRules().then(() => syncAlarms(newValue))
EditRules(newList) ==
  /\ CanDeliver
  /\ newList # rules
  /\ rules' = newList
  /\ SetProc(FreeSlot, [Idle EXCEPT !.kind = "storageChanged", !.pc = "lrRead", !.run = nextId,
                                    !.stack = <<"saGetAll">>, !.arg = newList])
  /\ nextId' = nextId + 1
  /\ Delivered
  /\ UNCHANGED <<clockVars, buffer, actionLog, sessionVars, engineVars, hostVars, obs>>

\* no part, as the empty record
NoPart == <<>>

\* the items of the files the options page imports: one rule each, with or
\* without its actions, timing and safety parts
ImportItems ==
  {[id |-> "rD", name |-> "D", match |-> [urlRegex |-> inc, excludeRegex |-> exc]] @@ a @@ t @@ sf :
     inc \in {<<>>, <<PatA>>, <<PatBad, PatA, PatBad>>},
     exc \in {<<>>, <<PatBad>>},
     a \in {NoPart, [actions |-> KeepAll], [actions |-> RuleB.actions]},
     t \in {NoPart} \cup {[timing |-> [asap |-> FALSE, onTabClose |-> FALSE,
                                        onBrowserClose |-> FALSE, periodicMinutes |-> m]] :
                             m \in {Null, 0, 2}},
     sf \in {NoPart, [safety |-> [maxDeletesPerMinute |-> 0, cooldownSeconds |-> 0]],
             [safety |-> [maxDeletesPerMinute |-> 1, cooldownSeconds |-> -1]]}}

\* the files: one item, or a rule that passes after one that does not
ImportFiles ==
  {<<item>> : item \in ImportItems}
  \cup {<<[id |-> "rE", name |-> "E", match |-> [urlRegex |-> <<>>, excludeRegex |-> <<>>]],
           [id |-> "rD", name |-> "D", match |-> [urlRegex |-> <<PatB>>, excludeRegex |-> <<>>]]>>}

RECURSIVE importInto(_, _)
\* the loop of importRules: a valid rule replaces the rule of its id or is pushed
importInto(ruleList, items) ==
  IF items = <<>> THEN ruleList
  ELSE LET rule == createRule(Head(items))
           existingIdx == FindIndex(ruleList, LAMBDA r : r.id = rule.id)
       IN importInto(IF ~validateRule(rule).valid THEN ruleList
                     ELSE IF existingIdx # 0 THEN [ruleList EXCEPT ![existingIdx] = rule]
                     ELSE Append(ruleList, rule),
                     Tail(items))

\* what validateRule returned for one item of an import
ValidateObs(run, rule) ==
  [path |-> "validate", run |-> run, rule |-> rule, valid |-> validateRule(rule).valid,
   errors |-> validateRule(rule).errors]

\* the options page imports a file: importRules, then saveRules, and the
\* background's handleStorageChanged when the stored list has changed
ImportRules(file) ==
  LET newList == importInto(rules, file)
  IN /\ events < MaxEvents
     /\ newList # rules => FreeSlots # {}
     /\ obs' = obs \cup {ValidateObs(events, createRule(file[i])) : i \in 1..Len(file)}
     /\ rules' = newList
     /\ IF newList # rules
        THEN /\ SetProc(FreeSlot, [Idle EXCEPT !.kind = "storageChanged", !.pc = "lrRead",
                                               !.run = nextId, !.stack = <<"saGetAll">>,
                                               !.arg = newList])
             /\ nextId' = nextId + 1
        ELSE UNCHANGED <<procs, nextId>>
     /\ Delivered
     /\ UNCHANGED <<clockVars, buffer, actionLog, sessionVars, engineVars, hostVars>>

\* the clock advances
Tick(d) ==
  /\ ticks < MaxTicks
  /\ now' = now + d
  /\ ticks' = ticks + 1
  /\ UNCHANGED <<events, nextId, storeVars, sessionVars, engineVars, hostVars, procs, obs>>

(***************************************************************************)
(* The background script is loaded: module state is constructed and        *)
(* bootstrap() is called (main.js:312).  storage.local survives, the       *)
(* session store, the alarms and every handler in flight do not.           *)
(***************************************************************************)
Loaded ==
  [p \in Procs |-> IF p = 1 THEN BootstrapCall(0) ELSE Idle]

Restart ==
  /\ events < MaxEvents
  /\ tokens' = DEFAULT_MAX_DELETES_PER_MINUTE
  /\ lastRefill' = now
  /\ recentlyProcessed' = <<>>
  /\ compiledRules' = <<>>
  /\ lastCacheClearTime' = 0
  /\ paused' = FALSE
  /\ tabMap' = <<>>
  /\ alarms' = {}
  /\ procs' = Loaded
  /\ obs' = obs \cup {ExecObs("restart", events, "", "", KeepAll, 0, 0, 0)}
  /\ Delivered
  /\ UNCHANGED <<clockVars, nextId, storeVars, history>>

(***************************************************************************)
(* Initial states.                                                         *)
(***************************************************************************)
\* buffer entries left by an earlier session
OldEntry(id, url, actions, age, lastAttemptAt, attempts, status) ==
  [id |-> id, url |-> url, hostname |-> extractHostname(url), actions |-> actions,
   ruleIdMatched |-> "rA", firstSeenAt |-> StartTime - age, lastAttemptAt |-> lastAttemptAt,
   attempts |-> attempts, status |-> status]

EntryReady == OldEntry(1, UrlA, RuleA.actions, 10000, Null, 0, "pending")
EntryExpired == OldEntry(2, UrlB, RuleB.actions, BUFFER_MAX_AGE_MS, StartTime - 9000, 1, "pending")
EntryFailed == OldEntry(3, UrlA, RuleA.actions, 20000, StartTime - 20000, BUFFER_MAX_ATTEMPTS, "failed")
EntryWaiting == OldEntry(4, UrlB, RuleB.actions, 30000, StartTime - 1000, 1, "pending")
\* one failed attempt short of the ceiling, and due for its next retry
EntryRetried ==
  OldEntry(5, UrlB, RuleB.actions, 20000, StartTime - 9000, BUFFER_MAX_ATTEMPTS - 1, "pending")

\* refreshed by an enqueue exactly the retry spacing ago, never attempted
EntrySpaced == OldEntry(6, UrlA, RuleA.actions, 15000, StartTime - RETRY_SPACING_MS, 0, "pending")

InitBuffers ==
  {<<>>, <<EntryExpired, EntryReady>>, <<EntryFailed, EntryReady>>, <<EntryWaiting, EntryReady>>}

\* the flush alarm and the periodic alarms a completed bootstrap leaves
BootstrappedAlarms(ruleList) ==
  alarmsToCreate(ruleList, {})
  \cup {[name |-> FlushAlarmName, delay |-> BUFFER_FLUSH_INTERVAL_MINUTES,
         period |-> BUFFER_FLUSH_INTERVAL_MINUTES, created |-> StartTime]}

InitCommon ==
  /\ now = StartTime
  /\ ticks = 0
  /\ events = 0
  /\ nextId = 10
  /\ rules = InitialRules
  /\ actionLog = <<>>
  /\ paused = FALSE
  /\ tabMap = <<>>
  /\ tokens = DEFAULT_MAX_DELETES_PER_MINUTE
  /\ lastRefill = StartTime
  /\ recentlyProcessed = <<>>
  /\ lastCacheClearTime = 0
  /\ obs = {}

\* the background script has just been loaded
Init ==
  /\ InitCommon
  /\ buffer \in InitBuffers
  /\ history = {UrlA, UrlAw}
  /\ compiledRules = <<>>
  /\ alarms = {}
  /\ procs = Loaded

\* an entry due for its last retry, with an entry at the edge of the retry
\* spacing or with one never attempted
RetryBuffers == {<<EntryRetried, EntrySpaced>>, <<EntryRetried, EntryReady>>}

\* the background script has just been loaded over such a buffer
InitRetry ==
  /\ InitCommon
  /\ buffer \in RetryBuffers
  /\ history = {UrlA, UrlAw}
  /\ compiledRules = <<>>
  /\ alarms = {}
  /\ procs = Loaded

\* bootstrap has completed on an empty buffer and no event has arrived yet
InitQuiet ==
  /\ InitCommon
  /\ buffer = <<>>
  /\ compiledRules = loadRulesResult(rules)
  /\ alarms = BootstrappedAlarms(rules)
  /\ procs = [p \in Procs |-> Idle]

\* bootstrap has completed on the cache-clearing rule, in a fresh profile
InitCache ==
  /\ now = StartTime
  /\ ticks = 0
  /\ events = 0
  /\ nextId = 10
  /\ rules = <<RuleCache>>
  /\ buffer = <<>>
  /\ actionLog = <<>>
  /\ paused = FALSE
  /\ tabMap = <<>>
  /\ tokens = DEFAULT_MAX_DELETES_PER_MINUTE
  /\ lastRefill = StartTime
  /\ recentlyProcessed = <<>>
  /\ lastCacheClearTime = 0
  /\ history = {}
  /\ compiledRules = loadRulesResult(rules)
  /\ alarms = BootstrappedAlarms(rules)
  /\ procs = [p \in Procs |-> Idle]
  /\ obs = {}

\* an alarm of this extension that its code neither creates nor names
StrayAlarm ==
  [name |-> [prefix |-> "shadowlog_other", id |-> ""], delay |-> 1, period |-> 1,
   created |-> StartTime]

\* bootstrap has completed with or without the periodic rule, and a stray
\* alarm is registered
InitAlarms ==
  /\ now = StartTime
  /\ ticks = 0
  /\ events = 0
  /\ nextId = 10
  /\ rules \in {InitialRules, <<RuleA>>}
  /\ buffer = <<>>
  /\ actionLog = <<>>
  /\ paused = FALSE
  /\ tabMap = <<>>
  /\ tokens = DEFAULT_MAX_DELETES_PER_MINUTE
  /\ lastRefill = StartTime
  /\ recentlyProcessed = <<>>
  /\ lastCacheClearTime = 0
  /\ history = {UrlA, UrlB, UrlC}
  /\ compiledRules = loadRulesResult(rules)
  /\ alarms = BootstrappedAlarms(rules) \cup {StrayAlarm}
  /\ procs = [p \in Procs |-> Idle]
  /\ obs = {}

\* bootstrap has completed over some persisted rule list, in a fresh profile
InitEngine ==
  /\ now = StartTime
  /\ ticks = 0
  /\ events = 0
  /\ nextId = 10
  /\ rules \in EngineRuleLists
  /\ buffer = <<>>
  /\ actionLog = <<>>
  /\ paused = FALSE
  /\ tabMap = <<>>
  /\ tokens = DEFAULT_MAX_DELETES_PER_MINUTE
  /\ lastRefill = StartTime
  /\ recentlyProcessed = <<>>
  /\ lastCacheClearTime = 0
  /\ history = {}
  /\ compiledRules = loadRulesResult(rules)
  /\ alarms = BootstrappedAlarms(rules)
  /\ procs = [p \in Procs |-> Idle]
  /\ obs = {}

\* ... in a fresh profile
InitReady == InitQuiet /\ history = {}

\* ... in a profile that holds the two variants of one page
InitBrowsed == InitQuiet /\ history = {UrlA, UrlAw}

(***************************************************************************)
(* Specifications.  Spec is the whole extension.  The others take the same *)
(* actions over fewer events, each from a state Spec reaches, so that the  *)
(* interleavings of one part of the program can be enumerated.             *)
(***************************************************************************)
\* every await of every handler
Steps(p) ==
  \/ PDCheck(p)
  \/ ExSearch(p)
  \/ ExDelete(p)
  \/ ExSiteData(p)
  \/ ExCache(p)
  \/ LogRead(p)
  \/ LogWrite(p)
  \/ EnqRead(p)
  \/ EnqWrite(p)
  \/ FlRead(p)
  \/ MarkRead(p)
  \/ MarkWrite(p)
  \/ TrimRead(p)
  \/ TrimWrite(p)
  \/ LrRead(p)
  \/ LrBuild(p)
  \/ SaGetAll(p)
  \/ SaSync(p)
  \/ SaClear(p)
  \/ EfGet(p)
  \/ EfCreate(p)
  \/ BsRules(p)
  \/ SwRules(p)
  \/ SwClear(p)
  \/ SwSearch(p)
  \/ SwNext(p)
  \/ TmRead(p)
  \/ TmWrite(p)
  \/ TrGetUrl(p)
  \/ WrGetAll(p)
  \/ WrTracked(p)
  \/ WrNext(p)

EventTicks == {1000, 2000, 60000}

Next ==
  \/ \E url \in Urls : HandleVisited(url)
  \/ \E tabId \in Tabs, url \in Urls : HandleNavigation(tabId, url)
  \/ \E tabId \in Tabs : HandleTabRemoved(tabId)
  \/ HandleWindowRemoved
  \/ \E alarm \in alarms : HandleAlarm(alarm)
  \/ \E value \in BOOLEAN : SetPaused(value)
  \/ \E url \in Urls : ForgetUrl(url)
  \/ ClearActionLog
  \/ ClearBuffer
  \/ \E newList \in RuleLists : EditRules(newList)
  \/ HandleStartup
  \/ Restart
  \/ \E d \in EventTicks : Tick(d)
  \/ \E p \in Procs : Steps(p)

Spec == Init /\ [][Next]_vars

\* the rate limiter, the log and the buffer under visits of the two variants
\* of one page, with the clock running
RateUrls == {UrlA, UrlAw}

NextRate ==
  \/ \E url \in RateUrls : HandleVisited(url)
  \/ \E d \in EventTicks : Tick(d)
  \/ \E p \in Procs : PDCheck(p)
  \/ \E p \in Procs : ExSearch(p)
  \/ \E p \in Procs : ExDelete(p)
  \/ \E p \in Procs : ExSiteData(p)
  \/ \E p \in Procs : LogRead(p)
  \/ \E p \in Procs : LogWrite(p)
  \/ \E p \in Procs : EnqRead(p)
  \/ \E p \in Procs : EnqWrite(p)

SpecRate == InitReady /\ [][NextRate]_vars

\* the triggers: visits, navigations, tab and window closes, the pause flag
PipeUrls == {UrlA, UrlB, UrlC}

NextPipe ==
  \/ \E url \in PipeUrls : HandleVisited(url)
  \/ \E tabId \in Tabs, url \in PipeUrls : HandleNavigation(tabId, url)
  \/ \E tabId \in Tabs : HandleTabRemoved(tabId)
  \/ HandleWindowRemoved
  \/ \E value \in BOOLEAN : SetPaused(value)
  \/ \E d \in EventTicks : Tick(d)
  \/ \E p \in Procs : PDCheck(p)
  \/ \E p \in Procs : ExSearch(p)
  \/ \E p \in Procs : ExDelete(p)
  \/ \E p \in Procs : ExSiteData(p)
  \/ \E p \in Procs : LogRead(p)
  \/ \E p \in Procs : LogWrite(p)
  \/ \E p \in Procs : EnqRead(p)
  \/ \E p \in Procs : EnqWrite(p)
  \/ \E p \in Procs : TmRead(p)
  \/ \E p \in Procs : TmWrite(p)
  \/ \E p \in Procs : TrGetUrl(p)
  \/ \E p \in Procs : WrGetAll(p)
  \/ \E p \in Procs : WrTracked(p)
  \/ \E p \in Procs : WrNext(p)
  \/ \E p \in Procs : FlRead(p)
  \/ \E p \in Procs : MarkRead(p)
  \/ \E p \in Procs : MarkWrite(p)

SpecPipe == InitReady /\ [][NextPipe]_vars

\* the cache clear: visits under the cache-clearing rule and the flush of
\* what they left in the buffer, with the clock passing the clear interval
CacheTicks == {1000, CACHE_CLEAR_MIN_INTERVAL_MS}

NextCache ==
  \/ \E url \in RateUrls : HandleVisited(url)
  \/ \E alarm \in {a \in alarms : a.name = FlushAlarmName} : HandleAlarm(alarm)
  \/ \E d \in CacheTicks : Tick(d)
  \/ \E p \in Procs : PDCheck(p)
  \/ \E p \in Procs : ExCache(p)
  \/ \E p \in Procs : LogRead(p)
  \/ \E p \in Procs : LogWrite(p)
  \/ \E p \in Procs : EnqRead(p)
  \/ \E p \in Procs : EnqWrite(p)
  \/ \E p \in Procs : FlRead(p)
  \/ \E p \in Procs : MarkRead(p)
  \/ \E p \in Procs : MarkWrite(p)

SpecCache == InitCache /\ [][NextCache]_vars

\* the retry buffer from the load of the script: bootstrap against a visit,
\* the flush alarm, CLEAR_BUFFER, a second bootstrap and a restart
NextBoot ==
  \/ HandleVisited(UrlA)
  \/ \E alarm \in {a \in alarms : a.name = FlushAlarmName} : HandleAlarm(alarm)
  \/ ClearBuffer
  \/ HandleStartup
  \/ Restart
  \/ \E p \in Procs : PDCheck(p)
  \/ \E p \in Procs : ExSearch(p)
  \/ \E p \in Procs : ExDelete(p)
  \/ \E p \in Procs : ExSiteData(p)
  \/ \E p \in Procs : LogRead(p)
  \/ \E p \in Procs : LogWrite(p)
  \/ \E p \in Procs : EnqRead(p)
  \/ \E p \in Procs : EnqWrite(p)
  \/ \E p \in Procs : FlRead(p)
  \/ \E p \in Procs : MarkRead(p)
  \/ \E p \in Procs : MarkWrite(p)
  \/ \E p \in Procs : TrimRead(p)
  \/ \E p \in Procs : TrimWrite(p)
  \/ \E p \in Procs : LrRead(p)
  \/ \E p \in Procs : LrBuild(p)
  \/ \E p \in Procs : BsRules(p)
  \/ \E p \in Procs : SaGetAll(p)
  \/ \E p \in Procs : SaSync(p)
  \/ \E p \in Procs : EfGet(p)
  \/ \E p \in Procs : EfCreate(p)

SpecBoot == Init /\ [][NextBoot]_vars

\* the flushes of bootstrap and of the flush alarm against a visit, over the
\* buffer with the entry due for its last retry
NextRetry ==
  \/ HandleVisited(UrlA)
  \/ \E alarm \in {a \in alarms : a.name = FlushAlarmName} : HandleAlarm(alarm)
  \/ \E p \in Procs : PDCheck(p)
  \/ \E p \in Procs : ExSearch(p)
  \/ \E p \in Procs : ExDelete(p)
  \/ \E p \in Procs : ExSiteData(p)
  \/ \E p \in Procs : LogRead(p)
  \/ \E p \in Procs : LogWrite(p)
  \/ \E p \in Procs : EnqRead(p)
  \/ \E p \in Procs : EnqWrite(p)
  \/ \E p \in Procs : FlRead(p)
  \/ \E p \in Procs : MarkRead(p)
  \/ \E p \in Procs : MarkWrite(p)
  \/ \E p \in Procs : TrimRead(p)
  \/ \E p \in Procs : TrimWrite(p)
  \/ \E p \in Procs : LrRead(p)
  \/ \E p \in Procs : LrBuild(p)
  \/ \E p \in Procs : BsRules(p)
  \/ \E p \in Procs : SaGetAll(p)
  \/ \E p \in Procs : SaSync(p)
  \/ \E p \in Procs : EfGet(p)
  \/ \E p \in Procs : EfCreate(p)

SpecRetry == InitRetry /\ [][NextRetry]_vars

\* the paths that execute a plan: a visit, FORGET_URL, the periodic sweep and
\* the flush, with the rule list edited underneath
NextManual ==
  \/ HandleVisited(UrlA)
  \/ ForgetUrl(UrlA)
  \/ \E alarm \in alarms : HandleAlarm(alarm)
  \/ \E newList \in RuleLists : EditRules(newList)
  \/ \E p \in Procs : PDCheck(p)
  \/ \E p \in Procs : ExSearch(p)
  \/ \E p \in Procs : ExDelete(p)
  \/ \E p \in Procs : ExSiteData(p)
  \/ \E p \in Procs : LogRead(p)
  \/ \E p \in Procs : LogWrite(p)
  \/ \E p \in Procs : EnqRead(p)
  \/ \E p \in Procs : EnqWrite(p)
  \/ \E p \in Procs : FlRead(p)
  \/ \E p \in Procs : MarkRead(p)
  \/ \E p \in Procs : MarkWrite(p)
  \/ \E p \in Procs : LrRead(p)
  \/ \E p \in Procs : LrBuild(p)
  \/ \E p \in Procs : SaGetAll(p)
  \/ \E p \in Procs : SaSync(p)
  \/ \E p \in Procs : SaClear(p)
  \/ \E p \in Procs : SwRules(p)
  \/ \E p \in Procs : SwClear(p)
  \/ \E p \in Procs : SwSearch(p)
  \/ \E p \in Procs : SwNext(p)

SpecManual == InitBrowsed /\ [][NextManual]_vars

\* the alarms: rule edits with their syncAlarms, and the alarms firing
NextAlarms ==
  \/ \E alarm \in alarms : HandleAlarm(alarm)
  \/ \E newList \in AlarmRuleLists : EditRules(newList)
  \/ Tick(1000)
  \/ \E p \in Procs : ExSearch(p)
  \/ \E p \in Procs : ExDelete(p)
  \/ \E p \in Procs : ExSiteData(p)
  \/ \E p \in Procs : FlRead(p)
  \/ \E p \in Procs : LrRead(p)
  \/ \E p \in Procs : LrBuild(p)
  \/ \E p \in Procs : SaGetAll(p)
  \/ \E p \in Procs : SaSync(p)
  \/ \E p \in Procs : SaClear(p)
  \/ \E p \in Procs : SwRules(p)
  \/ \E p \in Procs : SwClear(p)
  \/ \E p \in Procs : SwSearch(p)
  \/ \E p \in Procs : SwNext(p)

SpecAlarms == InitAlarms /\ [][NextAlarms]_vars

\* the rules engine: TEST_URL messages over the persisted rule list
NextEngine ==
  \/ \E url \in TestUrls : HandleTestUrl(url)
  \/ \E p \in Procs : LrRead(p)
  \/ \E p \in Procs : LrBuild(p)
  \/ \E p \in Procs : TuReply(p)

SpecEngine == InitEngine /\ [][NextEngine]_vars

\* the rule schema: files imported by the options page
NextSchema ==
  \/ \E file \in ImportFiles : ImportRules(file)
  \/ \E p \in Procs : LrRead(p)
  \/ \E p \in Procs : LrBuild(p)
  \/ \E p \in Procs : SaGetAll(p)
  \/ \E p \in Procs : SaSync(p)
  \/ \E p \in Procs : SaClear(p)

SpecSchema == InitReady /\ [][NextSchema]_vars

\* the history matchers: the deletion engine's exported functions called on
\* pairs of URLs, and deleteHistory over a history holding the same URLs
SiteUrls ==
  {UrlPathQ, UrlWwwPathSlashQ, UrlPath, UrlWwwPath, UrlWwwOther, UrlWwwChildQ, UrlPathology,
   UrlRoot, UrlFtpPath, UrlFtpWwwPath, UrlOrgPath, UrlGarbage}

InitUrls == InitQuiet /\ history = SiteUrls

NextUrls ==
  \/ \E sourceUrl \in SiteUrls, candidateUrl \in SiteUrls, includeSubpages \in BOOLEAN :
       MatchUrls(sourceUrl, candidateUrl, includeSubpages)
  \/ \E url \in SiteUrls, includeSubpages \in BOOLEAN : DeleteHistory(url, includeSubpages)
  \/ \E p \in Procs : DhSearch(p)
  \/ \E p \in Procs : DhDelete(p)

SpecUrls == InitUrls /\ [][NextUrls]_vars

\* reloads of the rules engine: the options page saves rule lists while
\* TEST_URL messages are answered
\* rule B run as soon as possible instead of periodically
RuleBAsap == [RuleB EXCEPT !.timing.asap = TRUE, !.timing.periodicMinutes = Null]

ReloadLists == {InitialRules, <<RuleB, RuleA>>, <<RuleA, RuleBSlow>>, <<RuleBAsap, RuleA>>}

NextReload ==
  \/ \E newList \in ReloadLists : EditRules(newList)
  \/ \E url \in TestUrls : HandleTestUrl(url)
  \/ \E p \in Procs : LrRead(p)
  \/ \E p \in Procs : LrBuild(p)
  \/ \E p \in Procs : TuReply(p)
  \/ \E p \in Procs : SaGetAll(p)
  \/ \E p \in Procs : SaSync(p)
  \/ \E p \in Procs : SaClear(p)

SpecReload == InitReady /\ [][NextReload]_vars

\* the tab tracker: navigations and closes of two tabs, on pages no rule
\* matches, after tab 1 has been tracked on such a page
TabIds == {1, 2}
PlainUrls == {UrlC, UrlOrgPath}

InitTabs ==
  /\ now = StartTime
  /\ ticks = 0
  /\ events = 0
  /\ nextId = 10
  /\ rules = InitialRules
  /\ buffer = <<>>
  /\ actionLog = <<>>
  /\ paused = FALSE
  /\ tabMap = [t \in {1} |-> [url |-> UrlC, timestamp |-> StartTime]]
  /\ tokens = DEFAULT_MAX_DELETES_PER_MINUTE
  /\ lastRefill = StartTime
  /\ recentlyProcessed = <<>>
  /\ lastCacheClearTime = 0
  /\ compiledRules = loadRulesResult(rules)
  /\ history = {UrlC}
  /\ alarms = BootstrappedAlarms(rules)
  /\ procs = [p \in Procs |-> Idle]
  /\ obs = {}

NextTabs ==
  \/ \E tabId \in TabIds, url \in PlainUrls : HandleNavigation(tabId, url)
  \/ \E tabId \in TabIds : HandleTabRemoved(tabId)
  \/ \E p \in Procs : PDCheck(p)
  \/ \E p \in Procs : TmRead(p)
  \/ \E p \in Procs : TmWrite(p)
  \/ \E p \in Procs : TrGetUrl(p)

SpecTabs == InitTabs /\ [][NextTabs]_vars

\* overlapping flushes: the load-time bootstrap and the bootstrap of
\* runtime.onStartup over the buffer with the entry due for its last retry
NextOverlap ==
  \/ HandleStartup
  \/ \E alarm \in {a \in alarms : a.name = FlushAlarmName} : HandleAlarm(alarm)
  \/ \E p \in Procs : ExSearch(p)
  \/ \E p \in Procs : ExDelete(p)
  \/ \E p \in Procs : ExSiteData(p)
  \/ \E p \in Procs : FlRead(p)
  \/ \E p \in Procs : MarkRead(p)
  \/ \E p \in Procs : MarkWrite(p)
  \/ \E p \in Procs : TrimRead(p)
  \/ \E p \in Procs : TrimWrite(p)
  \/ \E p \in Procs : LrRead(p)
  \/ \E p \in Procs : LrBuild(p)
  \/ \E p \in Procs : BsRules(p)
  \/ \E p \in Procs : SaGetAll(p)
  \/ \E p \in Procs : SaSync(p)
  \/ \E p \in Procs : EfGet(p)
  \/ \E p \in Procs : EfCreate(p)

SpecOverlap == InitRetry /\ [][NextOverlap]_vars

\* the pause flag: bootstrap has completed with an entry left in the buffer,
\* the flag is set or not, and visits, FORGET_URL, the flush alarm and the
\* periodic alarm arrive while it is switched
InitPause ==
  /\ now = StartTime
  /\ ticks = 0
  /\ events = 0
  /\ nextId = 10
  /\ rules = InitialRules
  /\ buffer = <<EntryReady>>
  /\ actionLog = <<>>
  /\ paused \in BOOLEAN
  /\ tabMap = <<>>
  /\ tokens = DEFAULT_MAX_DELETES_PER_MINUTE
  /\ lastRefill = StartTime
  /\ recentlyProcessed = <<>>
  /\ lastCacheClearTime = 0
  /\ history = {UrlA, UrlB}
  /\ compiledRules = loadRulesResult(rules)
  /\ alarms = BootstrappedAlarms(rules)
  /\ procs = [p \in Procs |-> Idle]
  /\ obs = {}

NextPause ==
  \/ \E value \in BOOLEAN : SetPaused(value)
  \/ HandleVisited(UrlA)
  \/ ForgetUrl(UrlA)
  \/ \E alarm \in alarms : HandleAlarm(alarm)
  \/ \E p \in Procs : PDCheck(p)
  \/ \E p \in Procs : ExSearch(p)
  \/ \E p \in Procs : ExDelete(p)
  \/ \E p \in Procs : ExSiteData(p)
  \/ \E p \in Procs : LogRead(p)
  \/ \E p \in Procs : LogWrite(p)
  \/ \E p \in Procs : EnqRead(p)
  \/ \E p \in Procs : EnqWrite(p)
  \/ \E p \in Procs : FlRead(p)
  \/ \E p \in Procs : MarkRead(p)
  \/ \E p \in Procs : MarkWrite(p)
  \/ \E p \in Procs : LrRead(p)
  \/ \E p \in Procs : LrBuild(p)
  \/ \E p \in Procs : SwRules(p)
  \/ \E p \in Procs : SwSearch(p)
  \/ \E p \in Procs : SwNext(p)

SpecPause == InitPause /\ [][NextPause]_vars

\* the retries of the flush alarm alone: bootstrap has completed and left
\* pending entries, no page is visited, and the alarm fires one period after
\* the other, each time after the flush before it has returned
LiveBuffers == {<<EntryReady>>, <<EntryRetried, EntryReady>>, <<EntryWaiting, EntryReady>>}

InitLive ==
  /\ InitCommon
  /\ buffer \in LiveBuffers
  /\ compiledRules = loadRulesResult(rules)
  /\ alarms = BootstrappedAlarms(rules)
  /\ procs = [p \in Procs |-> Idle]
  /\ history = {UrlA, UrlB}

\* alarms.onAlarm for the flush alarm, one period after the last firing
FlushAlarmFires ==
  /\ CanDeliver
  /\ FreeSlots = Procs
  /\ \E alarm \in alarms :
       /\ alarm.name = FlushAlarmName
       /\ now' = now + alarm.period * 60000
  /\ SetProc(FreeSlot, [Idle EXCEPT !.kind = "alarm", !.pc = "flRead", !.run = nextId])
  /\ nextId' = nextId + 1
  /\ Delivered
  /\ UNCHANGED <<ticks, storeVars, sessionVars, engineVars, hostVars, obs>>

NextLive ==
  \/ FlushAlarmFires
  \/ \E p \in Procs : ExSearch(p)
  \/ \E p \in Procs : ExDelete(p)
  \/ \E p \in Procs : ExSiteData(p)
  \/ \E p \in Procs : FlRead(p)
  \/ \E p \in Procs : MarkRead(p)
  \/ \E p \in Procs : MarkWrite(p)

\* the alarm keeps firing, and every await of a handler in flight resolves
SpecLive ==
  /\ InitLive
  /\ [][NextLive]_vars
  /\ WF_vars(FlushAlarmFires)
  /\ \A p \in Procs :
       /\ WF_vars(ExSearch(p))
       /\ WF_vars(ExDelete(p))
       /\ WF_vars(ExSiteData(p))
       /\ WF_vars(FlRead(p))
       /\ WF_vars(MarkRead(p))
       /\ WF_vars(MarkWrite(p))

(***************************************************************************)
(* Properties.                                                             *)
(***************************************************************************)
AllIdle == \A p \in Procs : IsIdle(p)

\* handler p takes the step
Moves(p) == procs'[p] # procs[p]

\* the awaits inside executeActions, logAction and Buffer.enqueue
ExecPcs == {"exSearch", "exDelete", "exSiteData", "exCache"}
WorkPcs == ExecPcs \cup {"logRead", "logWrite", "enqRead", "enqWrite"}

HasPending(buf, url) ==
  \E i \in 1..Len(buf) : buf[i].url = url /\ buf[i].status = "pending"

\* p is inside processDeletion, past executeActions, with the given verdict
PDExecuted(pr, success) ==
  /\ pr.pc \in {"logRead", "logWrite"}
  /\ "pdAfterLog" \in Range(pr.stack)
  /\ pr.res.success = success

\* C1: the persisted buffer never holds two pending entries for one URL,
\* whatever the interleaving of enqueue, markSuccess, markFailed, trimExpired,
\* flush and clear at their storage reads and writes.
C1_OnePendingPerUrl ==
  \A i, j \in 1..Len(buffer) :
    (/\ buffer[i].url = buffer[j].url
     /\ buffer[i].status = "pending"
     /\ buffer[j].status = "pending") => i = j

\* an enqueue met the pending entry of its URL and refreshed it in place
C1_Witness ==
  \E i \in 1..Len(buffer) :
    /\ buffer[i].id = EntryReady.id
    /\ buffer[i].status = "pending"
    /\ buffer[i].attempts = 0
    /\ buffer[i].lastAttemptAt # Null

C2_Step(p) ==
  LET pr == procs[p]
  IN /\ (PDExecuted(pr, FALSE) /\ pr.pc = "logWrite" /\ Moves(p)) => procs'[p].pc = "enqRead"
     /\ (pr.pc = "enqRead" /\ ~pr.limited /\ Moves(p)) => procs'[p].pc = "enqWrite"
     /\ (pr.pc = "enqWrite" /\ ~pr.limited /\ Moves(p)) =>
          /\ ~pr.res.success
          /\ procs'[p].pc \notin WorkPcs
          /\ \E i \in 1..Len(buffer') :
               /\ buffer'[i].url = pr.url
               /\ buffer'[i].status = "pending"
               /\ buffer'[i].actions = pr.actions
               /\ ~HasPending(pr.snap, pr.url) =>
                    buffer'[i].attempts = 0 /\ buffer'[i].lastAttemptAt = Null
     /\ (PDExecuted(pr, TRUE) /\ Moves(p)) =>
          /\ buffer' = buffer
          /\ procs'[p].pc \notin {"enqRead", "enqWrite"}

\* C2: a processDeletion run that acquired a token and whose executeActions
\* failed goes on, after its log entry, to Buffer.enqueue, and its last step
\* leaves a pending entry for its URL with the merged actions, which has
\* attempts 0 and lastAttemptAt null when the buffer enqueue read held no
\* pending entry for the URL; a run whose executeActions succeeded never
\* writes the buffer and never enters enqueue.
C2_FailureEnqueued == [][\A p \in Procs : C2_Step(p)]_vars

\* one visit was delivered, its run executed, failed, was logged as failed and
\* has returned, leaving the fresh entry
C2_Witness ==
  /\ events = 1
  /\ AllIdle
  /\ \E o \in obs :
       /\ o.path = "pd"
       /\ \E k \in 1..Len(actionLog) : actionLog[k].run = o.run /\ ~actionLog[k].result.success
       /\ \E i \in 1..Len(buffer) :
            /\ buffer[i].url = o.url
            /\ buffer[i].status = "pending"
            /\ buffer[i].actions = o.actions
            /\ buffer[i].attempts = 0
            /\ buffer[i].lastAttemptAt = Null

\* p is the handler of FORGET_URL or the periodic sweep
IsForget(pr) == pr.kind = "forget"
IsSweep(pr) == pr.kind = "alarm" /\ pr.ruleId # ""

\* the last step of a failed processDeletion run leaves a pending entry
C3_PipelineStep(p) ==
  LET pr == procs[p]
  IN (pr.pc = "enqWrite" /\ ~pr.limited /\ ~pr.res.success /\ Moves(p)) =>
       HasPending(buffer', pr.url)

\* C3 as stated: on every path that executes a plan (processDeletion, the
\* periodic sweep, FORGET_URL) an execution that failed leaves a pending
\* buffer entry for its URL: when FORGET_URL returns, when the sweep moves on
\* to its next item, when processDeletion returns.
C3_EveryFailureBuffered ==
  [][\A p \in Procs :
       LET pr == procs[p]
       IN /\ C3_PipelineStep(p)
          /\ (IsForget(pr) /\ pr.pc = "logWrite" /\ ~pr.res.success /\ Moves(p)) =>
               HasPending(buffer', pr.url)
          /\ (IsSweep(pr) /\ pr.pc = "swNext" /\ ~pr.res.success /\ Moves(p)) =>
               HasPending(buffer', pr.url)]_vars

\* C3 amended: only processDeletion buffers a failed execution; no step of
\* FORGET_URL or of the periodic sweep writes the buffer, whatever the result.
C3_OnlyPipelineBuffers ==
  [][\A p \in Procs :
       LET pr == procs[p]
       IN /\ C3_PipelineStep(p)
          /\ ((IsForget(pr) \/ IsSweep(pr)) /\ Moves(p)) => buffer' = buffer]_vars

\* a FORGET_URL has failed and is logged, the sweep has just had an item fail,
\* and the buffer is empty
C3_Witness ==
  /\ buffer = <<>>
  /\ \E k \in 1..Len(actionLog) :
       actionLog[k].ruleNames = <<"Manual forget">> /\ ~actionLog[k].result.success
  /\ \E p \in Procs : IsSweep(procs[p]) /\ procs[p].pc = "swNext" /\ ~procs[p].res.success

\* bootstrap's awaits before its purge has written, and after its flush
BootPrePurge == {"lrRead", "lrBuild", "trimRead", "trimWrite"}
BootPostFlush == {"bsRules", "saGetAll", "saSync", "saClear", "efGet", "efCreate"}

\* entry e is pending, below the attempt ceiling and due for a retry at time t
RetryDue(e, t) ==
  /\ e.status = "pending"
  /\ e.attempts < BUFFER_MAX_ATTEMPTS
  /\ (e.lastAttemptAt = Null \/ t - e.lastAttemptAt > RETRY_SPACING_MS)

Expired(e, t) == t - e.firstSeenAt >= BUFFER_MAX_AGE_MS

\* the bootstrap started at load, with no event delivered since
C4_Undisturbed ==
  events = 0 =>
    /\ \A o \in obs : o.path = "flush" => o.entry # EntryExpired.id
    /\ \A p \in Procs :
         (procs[p].kind = "bootstrap" /\ procs[p].pc \notin BootPrePurge) =>
           \A i \in 1..Len(buffer) : ~Expired(buffer[i], now)
    /\ (AllIdle \/ \E p \in Procs : procs[p].kind = "bootstrap" /\ procs[p].pc \in BootPostFlush) =>
         \A i \in 1..Len(buffer) : ~Expired(buffer[i], now) /\ ~RetryDue(buffer[i], now)

\* the restart itself
C4_RestartStep ==
  (\E o \in obs' \ obs : o.path = "restart") =>
    /\ procs' = Loaded
    /\ buffer' = buffer /\ rules' = rules /\ actionLog' = actionLog
    /\ tokens' = DEFAULT_MAX_DELETES_PER_MINUTE /\ lastRefill' = now'
    /\ recentlyProcessed' = <<>> /\ compiledRules' = <<>> /\ lastCacheClearTime' = 0
    /\ paused' = FALSE /\ tabMap' = <<>>

\* the flush of a bootstrap, under any interleaving
C4_FlushStep(p) ==
  LET pr == procs[p]
      flushed(e) == \E o \in obs' : o.path = "flush" /\ o.run = pr.run /\ o.entry = e.id
  IN (pr.kind = "bootstrap" /\ Moves(p) /\ events' = events) =>
       /\ pr.pc = "flRead" =>
            /\ \A i \in 1..Len(buffer) :
                 RetryDue(buffer[i], now) =>
                   \E j \in 1..Len(procs'[p].queue) : procs'[p].queue[j] = buffer[i]
            /\ procs'[p].queue # <<>> => flushed(Head(procs'[p].queue))
            /\ procs'[p].queue = <<>> => procs'[p].pc = "bsRules"
       /\ pr.pc = "markWrite" =>
            /\ procs'[p].queue = Tail(pr.queue)
            /\ procs'[p].queue # <<>> => flushed(Head(procs'[p].queue))
            /\ procs'[p].queue = <<>> => procs'[p].pc = "bsRules"

\* C4: a restart leaves the persisted buffer (and rules and log) as they were
\* and resets the token bucket, the dedup map, the compiled cache, the
\* cache-clear timestamp and the session store; the bootstrap that follows
\* purges before it flushes: its flush queues every entry that is pending,
\* below the ceiling and due when it reads the buffer, executes the queue
\* entry by entry and ends only when the queue is empty; and when no other
\* event interferes, it executes no expired entry, and after its flush no
\* expired entry and no entry still due is left in the buffer.
C4_RestartRetries ==
  /\ []C4_Undisturbed
  /\ [][C4_RestartStep /\ \A p \in Procs : C4_FlushStep(p)]_vars

\* the load found one expired and one due entry; bootstrap has ended with the
\* expired one purged and the due one executed
C4_Witness ==
  /\ events = 0
  /\ AllIdle
  /\ \E o \in obs : o.path = "flush" /\ o.entry = EntryReady.id
  /\ \A i \in 1..Len(buffer) : buffer[i].id = EntryReady.id

\* C5: the processDeletion runs that took their token from one refill window
\* are no more than the cap (the least maxDeletesPerMinute among the rules
\* matching its URL) of any of them.
C5_RunsWithinCap ==
  \A o \in obs :
    o.path = "pd" =>
      Cardinality({o2 \in obs : o2.path = "pd" /\ o2.window = o.window}) <= o.cap

\* the run passes every gate of processDeletion before the token
PDEligible(pr) ==
  LET matching == {i \in 1..Len(compiledRules) : ruleMatches(compiledRules[i], pr.url)}
  IN /\ ~pr.paused
     /\ \A o \in obs : (o.path = "pd" /\ o.url = pr.url) => now - o.at >= DEDUP_WINDOW_MS
     /\ \E i \in matching :
          \/ pr.trigger = "asap" /\ compiledRules[i].timing.asap
          \/ pr.trigger = "tabClose" /\ compiledRules[i].timing.onTabClose
          \/ pr.trigger = "browserClose" /\ compiledRules[i].timing.onBrowserClose

BucketExhausted == tokens = 0 /\ now - lastRefill < REFILL_INTERVAL_MS

C6_Step(p) ==
  LET pr == procs[p]
      quiet == obs' = obs /\ actionLog' = actionLog /\ recentlyProcessed' = recentlyProcessed
  IN /\ (pr.pc = "pdCheck" /\ PDEligible(pr) /\ BucketExhausted /\ Moves(p)) =>
          /\ quiet
          /\ buffer' = buffer
          /\ procs'[p].limited
          /\ procs'[p].pc = "enqRead"
          /\ procs'[p].actions = mergeActions(evaluateUrl(compiledRules, pr.url))
     /\ (pr.limited /\ pr.pc = "enqRead" /\ Moves(p)) =>
          quiet /\ buffer' = buffer /\ procs'[p].pc = "enqWrite"
     /\ (pr.limited /\ pr.pc = "enqWrite" /\ Moves(p)) =>
          /\ quiet
          /\ procs'[p].pc \notin WorkPcs
          /\ \E i \in 1..Len(buffer') :
               /\ buffer'[i].url = pr.url
               /\ buffer'[i].status = "pending"
               /\ buffer'[i].actions = pr.actions

\* C6: a processDeletion run that passes the gates and finds the bucket
\* exhausted makes no executeActions call, writes no log entry and sets no
\* dedup mark, in that step or any later one; it goes to Buffer.enqueue with
\* the merged actions, and its last step leaves a pending entry for the URL
\* with those actions.
C6_ExhaustedDefers == [][\A p \in Procs : C6_Step(p)]_vars

\* a deferred run has returned: its URL is buffered, and was never executed,
\* logged or marked
C6_Witness ==
  /\ AllIdle
  /\ tokens = 0
  /\ \E i \in 1..Len(buffer) :
       /\ buffer[i].status = "pending"
       /\ buffer[i].url \notin DOMAIN recentlyProcessed
       /\ ~\E o \in obs : o.url = buffer[i].url
       /\ ~\E k \in 1..Len(actionLog) : actionLog[k].url = buffer[i].url

PdObs == {o \in obs : o.path = "pd"}

\* no two executions by processDeletion for one URL lie less than the window apart
C7_Apart ==
  \A o1, o2 \in PdObs :
    (o1 # o2 /\ o1.url = o2.url) =>
      (o1.at - o2.at >= DEDUP_WINDOW_MS \/ o2.at - o1.at >= DEDUP_WINDOW_MS)

\* a run for a URL executed before, at least the window ago, executes again
C7_Again(p) ==
  LET pr == procs[p]
  IN (/\ pr.pc = "pdCheck"
      /\ Moves(p)
      /\ PDEligible(pr)
      /\ \E o \in PdObs : o.url = pr.url
      /\ ~BucketExhausted) =>
       \E o \in obs' \ obs : o.path = "pd" /\ o.url = pr.url /\ o.run = pr.run /\ o.at = now

\* C7: under any interleaving of the trigger events, two processDeletion runs
\* for the same URL never both execute less than DEDUP_WINDOW_MS apart (the
\* mark is set in the step that decides to execute), and a run for a marked
\* URL that passes the other gates once DEDUP_WINDOW_MS has elapsed since the
\* mark executes again.
C7_DedupWindow == []C7_Apart /\ [][\A p \in Procs : C7_Again(p)]_vars

\* one URL executed twice, the second time exactly when the window had elapsed
C7_Witness ==
  \E o1, o2 \in PdObs : o1.url = o2.url /\ o2.at - o1.at = DEDUP_WINDOW_MS

C8_Step(p) ==
  LET pr == procs[p]
  IN (pr.pc = "pdCheck" /\ pr.paused /\ Moves(p)) =>
       /\ UNCHANGED <<now, ticks, events, nextId, rules, buffer, actionLog, paused, tabMap,
                      tokens, lastRefill, recentlyProcessed, compiledRules, lastCacheClearTime,
                      history, alarms, obs>>
       /\ procs'[p].pc \notin WorkPcs
       /\ \A q \in Procs \ {p} : procs'[q] = procs[q]

\* C8: a processDeletion run that read the pause flag as set does nothing when
\* it resumes: no executeActions call, no log entry, no buffer entry, no
\* token taken, no dedup mark; the stores, the limiter, the dedup map, the
\* compiled cache and the host's state are all as before, and the run only
\* returns to its caller.
C8_PausedNoOp == [][\A p \in Procs : C8_Step(p)]_vars

\* the flag is set, a visit of a URL that rule A deletes at once has been
\* handled, and nothing was executed, logged, buffered, taken or marked
C8_Witness ==
  /\ paused
  /\ AllIdle
  /\ history = {UrlA}
  /\ obs = {}
  /\ buffer = <<>>
  /\ actionLog = <<>>
  /\ tokens = DEFAULT_MAX_DELETES_PER_MINUTE
  /\ recentlyProcessed = <<>>

\* some rule matching the URL enables the trigger kind of the run
C9_Enabled(pr) ==
  \E i \in 1..Len(compiledRules) :
    /\ ruleMatches(compiledRules[i], pr.url)
    /\ \/ pr.trigger = "asap" /\ compiledRules[i].timing.asap
       \/ pr.trigger = "tabClose" /\ compiledRules[i].timing.onTabClose
       \/ pr.trigger = "browserClose" /\ compiledRules[i].timing.onBrowserClose

C9_Step(p) ==
  LET pr == procs[p]
  IN (pr.pc = "pdCheck" /\ ~C9_Enabled(pr) /\ Moves(p)) =>
       /\ UNCHANGED <<obs, actionLog, buffer, tokens, lastRefill, recentlyProcessed>>
       /\ procs'[p].pc \notin WorkPcs

C10_EveryRunLogged ==
  Cardinality(PdObs) <= ACTION_LOG_MAX_ENTRIES =>
    \A o \in PdObs :
      (\A p \in Procs : procs[p].run # o.run) =>
        Cardinality({k \in 1..Len(actionLog) : actionLog[k].run = o.run}) = 1

\* the background script is reloaded in this step
Restarting == \E o \in obs' \ obs : o.path = "restart"

\* handler p takes the step itself
Continues(p) == Moves(p) /\ ~Restarting

\* p is a flush whose executeActions has returned and whose markSuccess or
\* markFailed writes the buffer back in this step
FlushMarks(p) == procs[p].pc = "markWrite" /\ Continues(p)

\* C11: when a flush's retry of a buffered entry fails and markFailed records
\* the failed attempt, the audit log holds an entry marked as failed for that
\* retry.
C11_FailedRetryLogged ==
  [][\A p \in Procs :
       (/\ FlushMarks(p)
        /\ ~procs[p].res.success
        /\ IndexOfId(procs[p].snap, Head(procs[p].queue).id) # 0)
       => \E k \in 1..Len(actionLog') :
            /\ actionLog'[k].run = procs[p].run
            /\ actionLog'[k].url = Head(procs[p].queue).url
            /\ ~actionLog'[k].result.success]_vars

\* executeActions returns to its caller in this step of p
ExecReturns(p) ==
  /\ procs[p].pc \in ExecPcs
  /\ procs'[p].pc \notin ExecPcs
  /\ ~IsIdle(p)
  /\ procs'[p].kind # "idle"

\* every sub-operation that ran reported success and none reported partial
AllSubOpsClean(res) ==
  \A op \in {"history", "siteData", "cache"} :
    res[op].present => (res[op].success /\ ~res[op].partial)

C12_Step(p) ==
  LET pr == procs[p]
      entry == Head(pr.queue)
      idx == IndexOfId(pr.snap, entry.id)
  IN /\ ExecReturns(p) => (procs'[p].res.success <=> AllSubOpsClean(procs'[p].res))
     /\ (/\ pr.pc = "logWrite" /\ Moves(p)
         /\ "pdAfterLog" \in Range(pr.stack)
         /\ pr.res.history.partial)
        => procs'[p].pc = "enqRead"
     /\ (FlushMarks(p) /\ pr.res.history.partial /\ idx # 0)
        => /\ Len(buffer') = Len(pr.snap)
           /\ buffer'[idx].id = entry.id
           /\ buffer'[idx].attempts = pr.snap[idx].attempts + 1

\* C12: executeActions reports overall success exactly when every
\* sub-operation it ran returned success and none returned partial; after a
\* partial history result processDeletion goes on to enqueue a retry and
\* flush counts a failed attempt on the entry.
C12_PartialIsFailure == [][\A p \in Procs : C12_Step(p)]_vars

\* a processDeletion run logged a partial history deletion as a failure, and
\* a flush is about to count its partial retry as a failed attempt
C12_Witness ==
  /\ \E k \in 1..Len(actionLog) :
       /\ actionLog[k].result.history.success
       /\ actionLog[k].result.history.partial
       /\ ~actionLog[k].result.success
  /\ \E p \in Procs :
       /\ procs[p].pc = "markWrite"
       /\ procs[p].res.history.success
       /\ procs[p].res.history.partial
       /\ ~procs[p].res.success
       /\ IndexOfId(procs[p].snap, Head(procs[p].queue).id) # 0

C13_Step(p) ==
  LET pr == procs[p]
      q == procs'[p]
      urlsToDelete == {pr.url} \cup pr.hist
  IN (pr.pc = "exDelete" /\ Moves(p)) =>
       /\ q.deletedUrls \cup q.errors = urlsToDelete
       /\ q.deletedUrls \cap q.errors = {}
       /\ history' = history \ q.deletedUrls
       /\ (q.deletedUrls = {} /\ q.errors # {}) => ~q.res.history.success
       /\ (q.deletedUrls # {} /\ q.errors # {}) =>
            (q.res.history.success /\ q.res.history.partial)
       /\ q.errors = {} => (q.res.history.success /\ ~q.res.history.partial)

\* C13: deleteHistory tries deleteUrl on the exact URL and on every matched URL,
\* each on its own (every URL of the set ends up deleted or in the errors,
\* whatever happened to the others), and classifies: nothing deleted and an
\* error gives success false, something deleted and an error gives success
\* with partial, no error gives success without partial.
C13_DeleteHistoryOutcome == [][\A p \in Procs : C13_Step(p)]_vars

\* a deleteHistory over the visited URL and its www twin deleted one of them
\* and failed on the other
C13_Witness ==
  \E p \in Procs :
    /\ procs[p].hist # {}
    /\ procs[p].deletedUrls # {}
    /\ procs[p].errors # {}
    /\ procs[p].res.history = PartialResult

\* the cache clears that resolved so far
CacheClears == {o \in obs : o.path = "cache"}

\* C14: whichever callers of clearGlobalCache interleave, no two calls of the
\* cache-clear capability that resolved were made within
\* CACHE_CLEAR_MIN_INTERVAL_MS of one another.
C14_OneClearPerInterval ==
  \A o1, o2 \in CacheClears :
    o1 # o2 => (o1.at - o2.at >= CACHE_CLEAR_MIN_INTERVAL_MS
                \/ o2.at - o1.at >= CACHE_CLEAR_MIN_INTERVAL_MS)

\* p calls clearGlobalCache in this step: it either suspends at the removal
\* or comes back at once with a result
CallsClearCache(p) ==
  /\ Moves(p)
  /\ procs[p].pc \in {"pdCheck", "flRead", "markWrite"}
  /\ procs'[p].pc = "exCache" \/ procs'[p].res.cache.present

C15_Step(p) ==
  /\ (procs[p].pc = "exCache" /\ Moves(p)) =>
       /\ procs'[p].res.cache \in {OkResult, FailResult}
       /\ procs'[p].res.cache = FailResult =>
            (~procs'[p].res.success /\ lastCacheClearTime' = lastCacheClearTime)
       /\ procs'[p].res.cache = OkResult => lastCacheClearTime' = procs[p].t0
  /\ CallsClearCache(p) =>
       /\ lastCacheClearTime' = lastCacheClearTime
       /\ procs'[p].pc = "exCache" <=>
            now - lastCacheClearTime >= CACHE_CLEAR_MIN_INTERVAL_MS
       /\ procs'[p].pc # "exCache" => procs'[p].res.cache = SkippedResult

\* C15: the cache-clear timestamp changes only in the step in which the
\* removal resolves; a removal that rejects gives success false and leaves
\* the timestamp alone, a rate-limited call returns skipped and leaves it
\* alone, and a call is rate-limited exactly when the timestamp is less than
\* CACHE_CLEAR_MIN_INTERVAL_MS old, so a call after a failed one invokes the
\* capability again.
C15_TimestampOnSuccess ==
  [][/\ \A p \in Procs : C15_Step(p)
     /\ lastCacheClearTime' # lastCacheClearTime =>
          \E p \in Procs : /\ procs[p].pc = "exCache" /\ Moves(p)
                           /\ procs'[p].res.cache = OkResult]_vars

\* a clear failed and is in the log, the timestamp is still the initial one,
\* and the next caller is at the removal again
C15_Witness ==
  /\ lastCacheClearTime = 0
  /\ \E k \in 1..Len(actionLog) : actionLog[k].result.cache = FailResult
  /\ \E p \in Procs : procs[p].pc = "exCache" /\ procs[p].t0 = now
  /\ \A p \in Procs : procs[p].pc \in {"exCache", "idle"}

\* the places of the pending entries for url in buf
PendingAt(buf, url) ==
  {i \in 1..Len(buf) : buf[i].url = url /\ buf[i].status = "pending"}

C16_Step(p) ==
  LET pr == procs[p]
      read == pr.snap
      pend == PendingAt(read, pr.url)
  IN (pr.pc = "enqWrite" /\ Continues(p)) =>
       IF pend # {}
       THEN /\ Len(buffer') = Len(read)
            /\ \E i \in pend :
                 /\ \A j \in pend : i <= j
                 /\ buffer'[i] = [read[i] EXCEPT !.actions = pr.actions, !.lastAttemptAt = now]
                 /\ \A j \in 1..Len(read) : j # i => buffer'[j] = read[j]
       ELSE /\ Len(buffer') = (IF Len(read) < BUFFER_MAX_ENTRIES
                               THEN Len(read) + 1 ELSE BUFFER_MAX_ENTRIES)
            /\ Len(read) < BUFFER_MAX_ENTRIES =>
                 SubSeq(buffer', 1, Len(read)) = read
            /\ LET new == buffer'[Len(buffer')]
               IN /\ new.url = pr.url
                  /\ new.actions = pr.actions
                  /\ new.status = "pending"
                  /\ new.attempts = 0
                  /\ new.firstSeenAt = now
                  /\ new.lastAttemptAt = Null
                  /\ \A j \in 1..Len(read) : read[j].id # new.id

\* C16: enqueue for a URL that has a pending entry in the collection it read
\* writes back a collection of the same length in which only that entry's
\* actions and lastAttemptAt (now the current time) differ; an entry of the
\* same URL with status failed does not count, and then a new pending entry
\* is appended.
C16_EnqueueUpdatesInPlace == [][\A p \in Procs : C16_Step(p)]_vars

\* the URL's failed entry is still there, and the enqueue appended a new
\* pending entry after it
C16_Witness ==
  \E i, j \in 1..Len(buffer) :
    /\ i < j
    /\ buffer[i] = EntryFailed
    /\ buffer[j].url = EntryFailed.url
    /\ buffer[j].status = "pending"
    /\ buffer[j].firstSeenAt = now
    /\ buffer[j].attempts = 0
    /\ PendingAt(buffer, EntryFailed.url) = {j}

\* the ids of the entries of buf
IdsOf(buf) == {buf[i].id : i \in 1..Len(buf)}

C17_Step(p) ==
  LET pr == procs[p]
      read == pr.snap
      kept == {i \in 1..Len(read) : read[i].id \in IdsOf(buffer')}
      evicted == (1..Len(read)) \ kept
  IN (/\ pr.pc = "enqWrite" /\ Continues(p)
      /\ PendingAt(read, pr.url) = {}
      /\ Len(read) >= BUFFER_MAX_ENTRIES)
     => /\ Len(buffer') = BUFFER_MAX_ENTRIES
        /\ Cardinality(evicted) = Len(read) + 1 - BUFFER_MAX_ENTRIES
        /\ \E k \in 1..Len(buffer') :
             buffer'[k].id \notin IdsOf(read) /\ buffer'[k].firstSeenAt = now
        /\ \A i \in evicted :
             /\ \A j \in kept : read[i].firstSeenAt <= read[j].firstSeenAt
             /\ read[i].firstSeenAt <= now
        /\ \A j \in kept : \E k \in 1..Len(buffer') : buffer'[k] = read[j]

\* C17: the persisted buffer never holds more than BUFFER_MAX_ENTRIES
\* entries, and an enqueue that appends to a full collection writes back
\* BUFFER_MAX_ENTRIES entries: the new one and the entries it read except
\* those with the smallest firstSeenAt, whatever their status.
C17_EvictsOldest ==
  /\ [](Len(buffer) <= BUFFER_MAX_ENTRIES)
  /\ [][\A p \in Procs : C17_Step(p)]_vars

\* the oldest entry, still pending, was evicted by an append to a full buffer
C17_Witness ==
  /\ Len(buffer) = BUFFER_MAX_ENTRIES
  /\ EntryWaiting.id \notin IdsOf(buffer)
  /\ \E i, j \in 1..Len(buffer) :
       /\ buffer[i].id = EntryReady.id
       /\ buffer[i].status = "failed"
       /\ buffer[j].id >= 10
       /\ buffer[j].firstSeenAt = now

\* the entries markFailed has set to failed so far
AtCeiling == {o.entry : o \in {r \in obs : r.path = "ceiling"}}

C18_Step(p) ==
  LET pr == procs[p]
      read == pr.snap
      entry == Head(pr.queue)
      idx == IndexOfId(read, entry.id)
  IN /\ (FlushMarks(p) /\ ~pr.res.success /\ idx # 0) =>
          /\ Len(buffer') = Len(read)
          /\ buffer'[idx] =
               [read[idx] EXCEPT !.attempts = read[idx].attempts + 1,
                                 !.lastAttemptAt = now,
                                 !.status = IF read[idx].attempts + 1 = BUFFER_MAX_ATTEMPTS
                                            THEN "failed" ELSE read[idx].status]
          /\ \A j \in 1..Len(read) : j # idx => buffer'[j] = read[j]
     /\ (pr.pc = "flRead" /\ Continues(p)) =>
          \A k \in 1..Len(procs'[p].queue) : procs'[p].queue[k].id \notin AtCeiling

\* C18: markFailed adds one to the entry's attempts and stamps lastAttemptAt;
\* the call that brings attempts to BUFFER_MAX_ATTEMPTS sets status failed,
\* the entry stays in the buffer, and no later dequeueReady returns it.
C18_CeilingIsFinal == [][\A p \in Procs : C18_Step(p)]_vars

\* the places in buf of the entries that are pending, below the attempt
\* ceiling, and never attempted or attempted more than the retry spacing ago
DueAt(buf, t) ==
  {i \in 1..Len(buf) :
     /\ buf[i].status = "pending"
     /\ buf[i].attempts < BUFFER_MAX_ATTEMPTS
     /\ (buf[i].lastAttemptAt = Null \/ buf[i].lastAttemptAt < t - RETRY_SPACING_MS)}

C19_Step(p) ==
  LET q == procs'[p]
  IN (procs[p].pc = "flRead" /\ Continues(p)) =>
       /\ Len(q.queue) = Cardinality(DueAt(buffer, now))
       /\ \A i \in DueAt(buffer, now) : \E k \in 1..Len(q.queue) : q.queue[k] = buffer[i]
       /\ \A k \in 1..Len(q.queue) : \E i \in DueAt(buffer, now) : q.queue[k] = buffer[i]
       /\ \A k, l \in 1..Len(q.queue) :
            k < l => \E i, j \in DueAt(buffer, now) :
                       i < j /\ q.queue[k] = buffer[i] /\ q.queue[l] = buffer[j]

\* C19: dequeueReady returns exactly the entries of the buffer that are
\* pending, have attempts below BUFFER_MAX_ATTEMPTS and a lastAttemptAt that
\* is null or more than the retry spacing in the past, in buffer order, and
\* no other entry.
C19_DequeueReadyExact == [][\A p \in Procs : C19_Step(p)]_vars

\* a dequeueReady returned the entry due for its retry and left out the one
\* attempted exactly the retry spacing ago
C19_Witness ==
  /\ buffer = <<EntryRetried, EntrySpaced>>
  /\ \E p \in Procs : procs[p].queue = <<EntryRetried>> /\ procs[p].pc \in ExecPcs

\* the executeActions calls flush run r has made so far
FlushCalls(r) == {o \in obs : o.path = "flush" /\ o.run = r}

\* the executeActions calls of flushes made in this step
NewFlushCalls == {o \in obs' \ obs : o.path = "flush"}

\* p is a flush between the start of executeActions for the entry at the head
\* of its queue and the end of that entry's markSuccess or markFailed
FlushBusy(pr) == pr.queue # <<>> /\ pr.pc \in ExecPcs \cup {"markRead", "markWrite"}

\* in this step flush p starts executeActions on the head of the queue q holds
StartsHead(p, q) ==
  /\ q.pc \in ExecPcs \cup {"markRead"}
  /\ q.url = Head(q.queue).url
  /\ q.actions = Head(q.queue).actions
  /\ \E o \in NewFlushCalls :
       /\ NewFlushCalls = {o}
       /\ o.run = procs[p].run
       /\ o.entry = Head(q.queue).id
       /\ o.url = Head(q.queue).url

C20_Step(p) ==
  LET pr == procs[p]
      q == procs'[p]
      read == pr.snap
      entry == Head(pr.queue)
      idx == IndexOfId(read, entry.id)
  IN /\ (pr.pc = "flRead" /\ Continues(p)) =>
          IF q.queue # <<>> THEN StartsHead(p, q) ELSE NewFlushCalls = {}
     /\ FlushMarks(p) =>
          /\ q.queue = Tail(pr.queue)
          /\ IF q.queue # <<>> THEN StartsHead(p, q) ELSE NewFlushCalls = {}
          /\ (idx # 0 /\ pr.res.success) =>
               /\ Len(buffer') = Len(read) - 1
               /\ entry.id \notin IdsOf(buffer')
               /\ \A j \in 1..Len(read) :
                    j # idx => \E k \in 1..Len(buffer') : buffer'[k] = read[j]
          /\ (idx # 0 /\ ~pr.res.success) =>
               /\ Len(buffer') = Len(read)
               /\ buffer'[idx].id = entry.id
               /\ buffer'[idx].attempts = read[idx].attempts + 1
               /\ \A j \in 1..Len(read) : j # idx => buffer'[j] = read[j]
     /\ (FlushBusy(pr) /\ pr.pc # "markWrite" /\ Continues(p)) =>
          /\ q.queue = pr.queue
          /\ \A o \in NewFlushCalls : o.run # pr.run
          /\ buffer' = buffer

\* a flush in progress has called executeActions once for the head of its
\* queue and not yet for the entries behind it, and its queue holds no entry
\* twice
C20_Once ==
  \A p \in Procs :
    FlushBusy(procs[p]) =>
      LET queue == procs[p].queue
      IN /\ \E o \in FlushCalls(procs[p].run) : o.entry = Head(queue).id
         /\ \A k \in 2..Len(queue) :
              /\ \A o \in FlushCalls(procs[p].run) : o.entry # queue[k].id
              /\ \A l \in 1..(k - 1) : queue[l].id # queue[k].id

\* C20: one flush works through its ready entries one at a time, in order:
\* executeActions for the next entry starts in the step in which markSuccess
\* or markFailed for the previous one writes back, each ready entry is
\* executed once, and the write removes the entry when its execution
\* succeeded and otherwise leaves it with attempts one higher than read.
C20_FlushSequential ==
  /\ []C20_Once
  /\ [][\A p \in Procs : C20_Step(p)]_vars

\* a flush over two ready entries has marked the first as failed and is now
\* executing the second
C20_Witness ==
  \E p \in Procs :
    /\ procs[p].queue = <<EntryReady>>
    /\ procs[p].pc \in ExecPcs
    /\ {o.entry : o \in FlushCalls(procs[p].run)} = {EntryRetried.id, EntryReady.id}
    /\ buffer = <<[EntryRetried EXCEPT !.attempts = BUFFER_MAX_ATTEMPTS,
                                       !.lastAttemptAt = now,
                                       !.status = "failed"], EntryReady>>

\* the places in buf of the entries older than the maximum age at time t
OlderThanMaxAge(buf, t) ==
  {i \in 1..Len(buf) : t - buf[i].firstSeenAt > BUFFER_MAX_AGE_MS}

C21_Step(p) ==
  LET read == procs[p].snap
      old == OlderThanMaxAge(read, now)
  IN (procs[p].pc = "trimWrite" /\ Continues(p)) =>
       IF old = {}
       THEN buffer' = buffer
       ELSE /\ Len(buffer') = Len(read) - Cardinality(old)
            /\ \A i \in 1..Len(read) :
                 i \notin old <=> \E k \in 1..Len(buffer') : buffer'[k] = read[i]

\* C21: trimExpired removes exactly the entries whose age (current time minus
\* firstSeenAt) is greater than BUFFER_MAX_AGE_MS, whatever their status,
\* keeps every other entry as it is, and writes the buffer only when it
\* removed an entry.
C21_TrimExact == [][\A p \in Procs : C21_Step(p)]_vars


\* syncAlarms returns to its caller in this step
SyncCompletes(p) ==
  /\ procs[p].pc \in {"saSync", "saClear"}
  /\ Continues(p)
  /\ procs'[p].pc # "saClear"

\* the alarms registered under the periodic name of the rule
AlarmsOf(as, rule) == {a \in as : a.name = PeriodicAlarmName(rule.id)}

C22_Step(p) ==
  LET ruleList == procs[p].arg
  IN SyncCompletes(p) =>
       \A i \in 1..Len(ruleList) :
         IsPeriodicRule(ruleList[i]) =>
           /\ Cardinality(AlarmsOf(alarms', ruleList[i])) = 1
           /\ \A a \in AlarmsOf(alarms', ruleList[i]) :
                /\ a.delay = Max(ALARM_MIN_PERIOD_MINUTES, ruleList[i].timing.periodicMinutes)
                /\ a.period = Max(ALARM_MIN_PERIOD_MINUTES, ruleList[i].timing.periodicMinutes)

\* C22: when syncAlarms(rules) completes, every enabled rule of the list with
\* a periodicMinutes value has exactly one alarm under its periodic name, whose
\* delay and period are max(ALARM_MIN_PERIOD_MINUTES, periodicMinutes); this
\* holds after every rule edit followed by its syncAlarms.
C22_AlarmPerPeriodicRule == [][\A p \in Procs : C22_Step(p)]_vars


\* the alarm name is the periodic name of an enabled periodic rule of the list
Backed(name, ruleList) ==
  \E i \in 1..Len(ruleList) :
    IsPeriodicRule(ruleList[i]) /\ name = PeriodicAlarmName(ruleList[i].id)

\* a step of syncAlarms: its creations or one of its clears takes effect
SyncSteps(p) == procs[p].pc \in {"saSync", "saClear"} /\ Continues(p)

C23_Step(p) ==
  LET ruleList == procs[p].arg
  IN SyncSteps(p) =>
       /\ \A a \in alarms' \ alarms :
            Backed(a.name, ruleList) /\ a.name \notin AlarmNames(alarms)
       /\ \A a \in alarms \ alarms' :
            a.name.prefix = ALARM_PERIODIC_PREFIX /\ ~Backed(a.name, ruleList)

\* C23: syncAlarms changes the alarms only by creating the missing alarms of
\* enabled periodic rules and by clearing periodic-prefixed alarms that no
\* such rule backs; an existing alarm of a backed rule is neither recreated
\* nor cleared, and the flush alarm and every alarm without the periodic
\* prefix are left as they are.
C23_SyncFrame == [][\A p \in Procs : C23_Step(p)]_vars


\* no enabled rule of the persisted list has the id
RuleGone(ruleId) == \A i \in 1..Len(rules) : rules[i].id = ruleId => ~rules[i].enabled

\* handleAlarm is delivered an alarm that is neither the flush alarm nor a
\* periodic one: the event is consumed and no handler is left in flight
StrayDelivered == events' = events + 1 /\ procs' = procs

C24_Step(p) ==
  /\ (procs[p].pc = "swRules" /\ Continues(p) /\ RuleGone(procs[p].ruleId)) =>
       /\ procs'[p].pc = "swClear"
       /\ procs'[p].stack = procs[p].stack
       /\ UNCHANGED <<storeVars, engineVars, hostVars, obs>>
  /\ (procs[p].pc = "swClear" /\ Continues(p)) =>
       /\ alarms' = {a \in alarms : a.name # PeriodicAlarmName(procs[p].ruleId)}
       /\ procs'[p] = Idle
       /\ UNCHANGED <<storeVars, engineVars, history>>
       /\ \A o \in obs' \ obs : o.path = "unschedule"

\* C24: a periodic alarm whose rule id is not in the persisted list, or whose
\* rule is disabled, gets that alarm cleared and the handler ends: the rule
\* cache is not reloaded, the history is not searched and nothing is deleted.
\* An alarm that is neither the flush alarm nor periodic-prefixed changes
\* nothing.
C24_GoneRuleUnscheduled ==
  [][/\ \A p \in Procs : C24_Step(p)
     /\ StrayDelivered => UNCHANGED <<storeVars, sessionVars, engineVars, hostVars, obs>>]_vars

\* the handler of a periodic alarm has cleared the alarm of a rule that is
\* missing or disabled
C24_Witness ==
  \E o \in obs : /\ o.path = "unschedule"
                 /\ RuleGone("rB")
                 /\ PeriodicAlarmName("rB") \notin AlarmNames(alarms)
                 /\ StrayAlarm \in alarms


\* the compiled rules that match the URL
Matching(url) == {i \in 1..Len(compiledRules) : ruleMatches(compiledRules[i], url)}

\* the sweep's loop runs in this step, from the search's answer or from the
\* return of an executeActions call
SweepLoops(p) == procs[p].pc \in {"swSearch", "swNext"} /\ Continues(p)

\* the history items the loop has not looked at yet
Remaining(p) ==
  IF procs[p].pc = "swSearch" THEN SelectSeq(UrlOrder, LAMBDA u : u \in history)
  ELSE Tail(procs[p].queue)

C25_Reloads(p) ==
  (procs[p].pc = "swRules" /\ Continues(p) /\ ~RuleGone(procs[p].ruleId)) =>
    /\ procs'[p].pc = "lrRead"
    /\ procs'[p].stack # <<>>
    /\ Head(procs'[p].stack) = "swSearch"

C25_Applies(p) ==
  LET items == Remaining(p)
      hits == {i \in 1..Len(items) : Matching(items[i]) # {}}
  IN SweepLoops(p) =>
       /\ \A o \in obs' \ obs :
            /\ o.path = "sweep"
            /\ \E i \in hits : items[i] = o.url /\ \A j \in hits : i <= j
            /\ \A key \in ActionKinds :
                 o.actions[key] = "delete"
                   <=> \E i \in Matching(o.url) : compiledRules[i].actions[key] = "delete"
            /\ procs'[p].url = o.url
            /\ procs'[p].actions = o.actions
       /\ (procs[p].pc = "swNext" /\ hits # {}) => obs' # obs
       /\ obs' = obs => procs'[p] = Idle

C26_Step(p) ==
  SweepLoops(p) =>
    \A o \in obs' \ obs : \A key \in ActionKinds :
      o.actions[key] = "delete" =>
        \E i \in Matching(o.url) : /\ compiledRules[i].id = procs[p].ruleId
                                   /\ compiledRules[i].actions[key] = "delete"

\* C26: a periodic sweep applies only the actions of the rule whose alarm
\* fired; an action that only another rule matching the same item asks for
\* is not executed.
C26_OnlyAlarmRule == [][\A p \in Procs : C26_Step(p)]_vars


\* the TEST_URL responses that carry a merged plan
MergedReplies == {o \in obs : o.path = "test" /\ o.matches # <<>>}

\* C27: mergeActions gives "delete" for an action kind exactly when at least
\* one match asks to delete that kind, and "keep" otherwise; for the empty
\* match list every kind is "keep".
C27_MergeActions ==
  /\ \A key \in ActionKinds : mergeActions(<<>>)[key] = "keep"
  /\ \A o \in MergedReplies : \A key \in ActionKinds :
       /\ o.mergedActions[1][key] \in {"keep", "delete"}
       /\ o.mergedActions[1][key] = "delete"
            <=> \E i \in 1..Len(o.matches) : o.matches[i].actions[key] = "delete"

\* a URL matched by two rules, the first deleting the history the second
\* keeps, has been answered with both rules' deletions
C27_Witness ==
  \E o \in MergedReplies :
    /\ Len(o.matches) = 2
    /\ o.matches[1].actions.history = "delete"
    /\ o.matches[2].actions.history = "keep"
    /\ o.matches[2].actions.cookies = "delete"
    /\ o.mergedActions[1].history = "delete"
    /\ o.mergedActions[1].cookies = "delete"
    /\ o.mergedActions[1].cache = "keep"

\* the periodicMinutes values of the matches that have one
Intervals(matches) ==
  {matches[i].timing.periodicMinutes : i \in 1..Len(matches)} \ {Null}

\* C28: in the timing mergeTiming returns, each boolean trigger is the OR of
\* that trigger over the matches, and periodicMinutes is the least non-null
\* periodicMinutes of the matches, or null when every match has null.
C28_MergeTiming ==
  \A o \in MergedReplies :
    LET merged == o.mergedTiming[1]
        some(flag) == \E i \in 1..Len(o.matches) : o.matches[i].timing[flag]
    IN /\ merged.asap <=> some("asap")
       /\ merged.onTabClose <=> some("onTabClose")
       /\ merged.onBrowserClose <=> some("onBrowserClose")
       /\ IF Intervals(o.matches) = {}
          THEN merged.periodicMinutes = Null
          ELSE /\ merged.periodicMinutes \in Intervals(o.matches)
               /\ \A m \in Intervals(o.matches) : merged.periodicMinutes <= m

\* a URL matched by a rule swept every minute and then by one swept every two
\* minutes has been answered with the one-minute interval
C28_Witness ==
  \E o \in MergedReplies :
    /\ Len(o.matches) = 2
    /\ o.matches[1].timing.periodicMinutes = 1
    /\ o.matches[2].timing.periodicMinutes = 2
    /\ o.mergedTiming[1].periodicMinutes = 1
    /\ o.mergedTiming[1].onTabClose
    /\ ~o.mergedTiming[1].asap

\* the compiled rules with an include pattern found in the URL and no exclude
\* pattern found in it, letter case apart
Hits(compiled, url) ==
  {i \in 1..Len(compiled) :
     /\ \E j \in 1..Len(compiled[i].urlRegexCompiled) :
          RegexSearch(compiled[i].urlRegexCompiled[j], ToLowerCase(url))
     /\ \A j \in 1..Len(compiled[i].excludeRegexCompiled) :
          ~RegexSearch(compiled[i].excludeRegexCompiled[j], ToLowerCase(url))}

\* the place of index i among the indexes of the set, in increasing order
RankIn(idx, i) == Cardinality({j \in idx : j <= i})

C29_Step(p) ==
  LET hit == Hits(compiledRules, procs[p].url)
  IN (procs[p].pc = "tuReply" /\ Continues(p)) =>
       /\ obs' # obs
       /\ \A o \in obs' \ obs :
            /\ o.url = procs[p].url
            /\ Len(o.matches) = Cardinality(hit)
            /\ \A i \in hit :
                 LET m == o.matches[RankIn(hit, i)]
                     rule == compiledRules[i]
                 IN /\ m.ruleId = rule.id
                    /\ m.ruleName = rule.name
                    /\ m.actions = rule.actions
                    /\ m.timing = rule.timing
                    /\ m.safety = rule.safety

\* C29: evaluateUrl returns a match for a compiled rule exactly when at least
\* one of its include patterns matches the URL and none of its exclude
\* patterns does, letter case being ignored, and the matches come in the
\* order of the compiled rules.
C29_EvaluateUrl == [][\A p \in Procs : C29_Step(p)]_vars

\* the page typed in capitals has been answered with the rule whose include
\* pattern is in lower case, and without the rule that excludes a.com
C29_Witness ==
  \E o \in obs :
    /\ o.path = "test"
    /\ o.url = UrlUpper
    /\ rules = <<RuleE, RuleA>>
    /\ Len(o.matches) = 1
    /\ o.matches[1].ruleId = "rA"

\* the pattern is a non-empty string that new RegExp accepts
Compilable(pattern) == pattern # "" /\ RegexCompiles(pattern)

\* the rules of the list that are enabled and whose include patterns all compile
Kept(ruleList) ==
  {i \in 1..Len(ruleList) :
     /\ ruleList[i].enabled
     /\ \A j \in 1..Len(ruleList[i].match.urlRegex) : Compilable(ruleList[i].match.urlRegex[j])}

C30_Step(p) ==
  LET ruleList == procs[p].snap
      kept == Kept(ruleList)
  IN (procs[p].pc = "lrBuild" /\ Continues(p)) =>
       /\ Len(compiledRules') = Cardinality(kept)
       /\ \A i \in kept :
            LET c == compiledRules'[RankIn(kept, i)]
                rule == ruleList[i]
            IN /\ c.id = rule.id
               /\ c.name = rule.name
               /\ c.urlRegexCompiled = rule.match.urlRegex
               /\ c.excludeRegexCompiled
                    = SelectSeq(rule.match.excludeRegex, LAMBDA pattern : Compilable(pattern))
               /\ c.actions = rule.actions
               /\ c.timing = rule.timing
               /\ c.safety = rule.safety

\* C30: loadRules builds a compiled rule exactly for each persisted rule that
\* is enabled and whose include patterns all compile: one include pattern
\* that does not compile drops the whole rule, an exclude pattern that does
\* not compile is dropped alone, and a disabled rule never enters the cache.
C30_LoadRules == [][\A p \in Procs : C30_Step(p)]_vars

\* loadRules has run over a rule with a bad include pattern and a rule with a
\* bad exclude pattern: only the second is cached, without that pattern
C30_Witness ==
  /\ rules = <<RuleBadInclude, RuleBadExclude>>
  /\ \E o \in obs : o.path = "test"
  /\ Len(compiledRules) = 1
  /\ compiledRules[1].id = "rX"
  /\ compiledRules[1].excludeRegexCompiled = <<PatB>>


\* what validateRule returned for the rules it was given
Validations == {o \in obs : o.path = "validate"}

\* the number of messages of one kind in a list of errors
CountOf(errors, code) == Cardinality({i \in 1..Len(errors) : errors[i].code = code})

\* the include patterns of the rule that do not compile
BadIncludes(rule) ==
  {i \in 1..Len(rule.match.urlRegex) :
     rule.match.urlRegex[i] = "" \/ ~RegexCompiles(rule.match.urlRegex[i])}

DeletesSomething(rule) == \E key \in ActionKinds : rule.actions[key] = "delete"

HasTrigger(rule) ==
  \/ rule.timing.asap
  \/ rule.timing.onTabClose
  \/ rule.timing.onBrowserClose
  \/ (rule.timing.periodicMinutes # Null /\ rule.timing.periodicMinutes >= 1)

\* C31: validateRule answers valid only for a rule with at least one include
\* pattern, all of them compiling, at least one action set to delete, at
\* least one timing trigger enabled (or periodicMinutes of at least 1),
\* maxDeletesPerMinute of at least 1 and a non-negative cooldownSeconds; it
\* answers with a result in every case, valid exactly when errors is empty,
\* and errors holds a message for each violated constraint, not only the first.
C31_ValidateRule ==
  \A o \in Validations :
    LET rule == o.rule
    IN /\ o.valid <=> o.errors = <<>>
       /\ o.valid =>
            /\ Len(rule.match.urlRegex) >= 1
            /\ BadIncludes(rule) = {}
            /\ DeletesSomething(rule)
            /\ HasTrigger(rule)
            /\ rule.safety.maxDeletesPerMinute >= 1
            /\ rule.safety.cooldownSeconds >= 0
       /\ CountOf(o.errors, "noPattern") = (IF Len(rule.match.urlRegex) = 0 THEN 1 ELSE 0)
       /\ CountOf(o.errors, "badInclude") = Cardinality(BadIncludes(rule))
       /\ CountOf(o.errors, "noDelete") = (IF DeletesSomething(rule) THEN 0 ELSE 1)
       /\ CountOf(o.errors, "noTiming") = (IF HasTrigger(rule) THEN 0 ELSE 1)
       /\ CountOf(o.errors, "maxDeletesPerMinute")
            = (IF rule.safety.maxDeletesPerMinute >= 1 THEN 0 ELSE 1)
       /\ CountOf(o.errors, "cooldownSeconds") = (IF rule.safety.cooldownSeconds >= 0 THEN 0 ELSE 1)

\* a rule with two include patterns that do not compile, no deletion, no
\* trigger and a negative cooldown has been answered with all five messages
C31_Witness ==
  \E o \in Validations :
    /\ ~o.valid
    /\ CountOf(o.errors, "badInclude") = 2
    /\ CountOf(o.errors, "noDelete") = 1
    /\ CountOf(o.errors, "noTiming") = 1
    /\ CountOf(o.errors, "cooldownSeconds") = 1


\* the answers of the history matchers
MatchAnswers == {o \in obs : o.path = "match"}

\* the www/non-www counterpart of a hostname
Counterpart(hostname) ==
  IF Len(hostname) >= 2 /\ hostname[1] = "www" THEN Tail(hostname) ELSE <<"www">> \o hostname

\* a path without the slashes it ends with
RECURSIVE WithoutTrailingSlashes(_)
WithoutTrailingSlashes(path) ==
  IF path # <<>> /\ path[Len(path)] = "/"
  THEN WithoutTrailingSlashes(SubSeq(path, 1, Len(path) - 1))
  ELSE path

SameHostOrCounterpart(a, b) == b.hostname = a.hostname \/ b.hostname = Counterpart(a.hostname)

SameSchemeClass(a, b) ==
  \/ a.protocol \in {"http:", "https:"} /\ b.protocol \in {"http:", "https:"}
  \/ a.protocol \notin {"http:", "https:"} /\ b.protocol = a.protocol

SamePath(a, b) == WithoutTrailingSlashes(a.pathname) = WithoutTrailingSlashes(b.pathname)

\* C32: areEquivalentHistoryUrls(a, b) is true iff both URLs parse, b's
\* hostname is a's or its www/non-www counterpart, the schemes are both
\* http/https or the identical non-http scheme, the paths are equal apart
\* from trailing slashes and the query strings are identical.
C32_EquivalentUrls ==
  \A o \in MatchAnswers :
    ~o.includeSubpages =>
      LET a == parseUrl(o.source)
          b == parseUrl(o.candidate)
      IN o.accepted <=> /\ a.ok
                        /\ b.ok
                        /\ SameHostOrCounterpart(a, b)
                        /\ SameSchemeClass(a, b)
                        /\ SamePath(a, b)
                        /\ a.search = b.search

\* the function has accepted the https-www variant, with a trailing slash, of
\* an http page with a query string, has rejected the same page without the
\* query string and a text that is no URL as candidates, and has rejected a
\* source that is no URL
C32_Witness ==
  LET Answer(a, b, accepted) ==
        \E o \in MatchAnswers : /\ ~o.includeSubpages
                                /\ o.source = a
                                /\ o.candidate = b
                                /\ o.accepted = accepted
  IN /\ Answer(UrlPathQ, UrlWwwPathSlashQ, TRUE)
     /\ Answer(UrlPathQ, UrlPath, FALSE)
     /\ Answer(UrlPathQ, UrlGarbage, FALSE)
     /\ Answer(UrlGarbage, UrlPath, FALSE)


\* the candidate's path is the base path or lies below it, trailing slashes
\* apart; below the root lies every path
SameOrBelow(a, b) ==
  LET base == WithoutTrailingSlashes(a.pathname)
      candidate == WithoutTrailingSlashes(b.pathname)
  IN candidate = base \/ IsPrefix(base \o <<"/">>, candidate)

SubtreeAnswer(a, b, accepted) ==
  \E o \in MatchAnswers : /\ o.includeSubpages
                          /\ o.source = a
                          /\ o.candidate = b
                          /\ o.accepted = accepted

\* C33 as stated: isHistoryUrlInSubtree keeps the hostname, scheme and
\* query-string conditions of areEquivalentHistoryUrls and relaxes only the
\* path test to "equal to the base path or starting with base + '/'".
C33_SubtreeSameQuery ==
  \A o \in MatchAnswers :
    o.includeSubpages =>
      LET a == parseUrl(o.source)
          b == parseUrl(o.candidate)
      IN o.accepted <=> /\ a.ok
                        /\ b.ok
                        /\ SameHostOrCounterpart(a, b)
                        /\ SameSchemeClass(a, b)
                        /\ a.search = b.search
                        /\ SameOrBelow(a, b)

\* C33: isHistoryUrlInSubtree keeps the hostname and scheme conditions of
\* areEquivalentHistoryUrls, does not compare query strings, and accepts a
\* candidate whose normalized path equals the base path or starts with
\* base + '/'; a sibling sharing only a string prefix is rejected.
C33_Subtree ==
  \A o \in MatchAnswers :
    o.includeSubpages =>
      LET a == parseUrl(o.source)
          b == parseUrl(o.candidate)
      IN o.accepted <=> /\ a.ok
                        /\ b.ok
                        /\ SameHostOrCounterpart(a, b)
                        /\ SameSchemeClass(a, b)
                        /\ SameOrBelow(a, b)

\* for the base /path the function has accepted the page itself and a child
\* carrying a query string and has rejected the sibling /pathology, and for
\* the root it has accepted another page of the site
C33_Witness ==
  /\ SubtreeAnswer(UrlPath, UrlWwwPath, TRUE)
  /\ SubtreeAnswer(UrlPath, UrlWwwChildQ, TRUE)
  /\ SubtreeAnswer(UrlPath, UrlPathology, FALSE)
  /\ SubtreeAnswer(UrlRoot, UrlWwwOther, TRUE)


\* the complete compilations of the rule lists saved while reloads are watched
CompleteCaches == {loadRulesResult(list) : list \in ReloadLists}

\* the TEST_URL answers given in a step
NewTestReplies == {o \in obs' \ obs : o.path = "test"}

\* C34: loadRules replaces the compiled cache atomically: the cache changes
\* only in the step that ends a loadRules, to the complete compilation of the
\* list that call read, so it is at every moment the complete cache of a
\* saved list, and every evaluateUrl made while a loadRules is in flight
\* answers from such a cache, never from an empty or partly built one.
C34_AtomicReload ==
  [][/\ compiledRules \in CompleteCaches
     /\ compiledRules' \in CompleteCaches
     /\ compiledRules' # compiledRules =>
          \E p \in Procs : /\ At(p, "lrBuild")
                           /\ procs'[p].pc # "lrBuild"
                           /\ compiledRules' = loadRulesResult(procs[p].snap)
     /\ \A o \in NewTestReplies :
          \E cache \in CompleteCaches : o.matches = evaluateUrl(cache, o.url)]_vars

\* a TEST_URL has been answered from the previous cache while a loadRules
\* that had read an edited list was still to rebuild it
C34_Witness ==
  /\ \E o \in obs : o.path = "test" /\ o.matches # <<>>
  /\ \E p \in Procs : /\ At(p, "lrBuild")
                      /\ loadRulesResult(procs[p].snap) # compiledRules


\* the runs of the entries of a log
RunsOf(log) == {log[i].run : i \in 1..Len(log)}

C35_Step(p) ==
  LET pr == procs[p]
  IN /\ (pr.pc = "enqWrite" /\ Continues(p)) =>
          \* what is stored is the writer's collection: entries it read, and its own
          /\ \A j \in 1..Len(buffer') :
               \/ buffer'[j].id \in IdsOf(pr.snap)
               \/ buffer'[j].id = nextId /\ buffer'[j].url = pr.url
          \* an entry written after the writer read is gone
          /\ IdsOf(buffer') \cap (IdsOf(buffer) \ IdsOf(pr.snap)) = {}
     /\ (pr.pc = "logWrite" /\ Continues(p)) =>
          /\ RunsOf(actionLog') \subseteq RunsOf(pr.snap) \cup {pr.run}
          /\ RunsOf(actionLog') \cap (RunsOf(actionLog) \ RunsOf(pr.snap)) = {}

EntryOf(map, t) == IF t \in DOMAIN map THEN {map[t]} ELSE {}

C36_Step(p) ==
  LET pr == procs[p]
  IN (pr.pc = "tmWrite" /\ Continues(p)) =>
       \A t \in TabIds \ {pr.tab} : EntryOf(tabMap', t) = EntryOf(tabMap, t)

\* C36: the tab map tracks tabs independently: whatever the interleaving of
\* the trackNavigation and removeTab calls in flight, the write of one tab's
\* record or removal leaves the entry of every other tab as it was.
C36_TabsIndependent == [][\A p \in Procs : C36_Step(p)]_vars


\* the entries of a buffer whose status is failed
FailedIn(buf) == {i \in 1..Len(buf) : buf[i].status = "failed"}

\* C37: every buffer entry has attempts at most BUFFER_MAX_ATTEMPTS, and an
\* entry whose status is failed is not executed by a flush and gains no
\* attempt, also when flushes overlap.
C37_FailedIsFinal ==
  [][/\ \A i \in 1..Len(buffer') : buffer'[i].attempts <= BUFFER_MAX_ATTEMPTS
     /\ \A o \in NewFlushCalls : \A i \in FailedIn(buffer) : buffer[i].id # o.entry
     /\ \A i \in FailedIn(buffer) : \A j \in 1..Len(buffer') :
          buffer'[j].id = buffer[i].id => buffer'[j].attempts <= buffer[i].attempts]_vars


\* the entries markSuccess has removed from the buffer so far
RemovedBySuccess(seen) == {o.entry : o \in {r \in seen : r.path = "removed"}}

\* C38: an entry that markSuccess has removed is in no buffer stored
\* afterwards and is executed by no flush afterwards, whatever enqueue,
\* markFailed or trimExpired was in flight when it was removed.
C38_RemovedStaysRemoved ==
  [][/\ RemovedBySuccess(obs') \cap IdsOf(buffer') = {}
     /\ \A o \in NewFlushCalls : o.entry \notin RemovedBySuccess(obs)]_vars


\* the executeActions calls a sweep starts in a step
NewSweepCalls == {o \in obs' \ obs : o.path = "sweep"}

C39_Step(p) ==
  LET pr == procs[p]
      q == procs'[p]
      ready == dequeueReadyResult(buffer, now)
      found == SkipUnmatched(SelectSeq(UrlOrder, LAMBDA u : u \in history))
      left == SkipUnmatched(Tail(pr.queue))
  IN \* a flush executes the first ready entry
     /\ (pr.pc = "flRead" /\ Continues(p) /\ ready # <<>>) =>
          \E o \in NewFlushCalls : o.run = pr.run /\ o.entry = Head(ready).id
     \* a sweep whose search answered executes the first item a rule matches
     /\ (pr.pc = "swSearch" /\ Continues(p) /\ found # <<>>) =>
          \/ \E o \in NewSweepCalls : o.run = pr.run /\ o.url = Head(found)
          \/ q = Resume(pr)
     /\ (pr.pc = "swNext" /\ Continues(p) /\ left # <<>>) =>
          \E o \in NewSweepCalls : o.run = pr.run /\ o.url = Head(left)
     \* FORGET_URL executes its plan
     /\ (pr.kind # "forget" /\ q.kind = "forget") =>
          \E o \in obs' \ obs : /\ o.path = "forget"
                                /\ o.run = q.run
                                /\ o.url = q.url
                                /\ o.actions = forgetActions
     \* none of them has read the flag
     /\ q.kind \in {"alarm", "forget"} => ~q.paused

\* C39: the pause flag gates processDeletion only: a flush, a periodic sweep
\* and FORGET_URL go on to executeActions the same way whether the flag is
\* set or not, so they delete while the extension is paused.
C39_PauseGatesOnlyPipeline == [][\A p \in Procs : C39_Step(p)]_vars

\* the flag has been set throughout, two handlers have been delivered, and
\* two of flush, sweep and FORGET_URL have executed a plan
C39_Witness ==
  /\ paused
  /\ events = 2
  /\ \A o \in obs : o.path \in {"flush", "sweep", "forget"}
  /\ Cardinality({o.run : o \in obs}) = 2
  /\ Cardinality({o.path : o \in obs}) = 2


\* the entries bootstrap left in the buffer
LiveIds == {EntryReady.id, EntryRetried.id, EntryWaiting.id}

PendingIn(buf, id) == \E i \in 1..Len(buf) : buf[i].id = id /\ buf[i].status = "pending"

\* failed is the status of the entries attempted BUFFER_MAX_ATTEMPTS times, and of no other
C40_Ceiling ==
  \A i \in 1..Len(buffer) :
    /\ buffer[i].status \in {"pending", "failed"}
    /\ buffer[i].status = "failed" <=> buffer[i].attempts = BUFFER_MAX_ATTEMPTS
    /\ buffer[i].attempts <= BUFFER_MAX_ATTEMPTS

C40_Step(p) ==
  LET pr == procs[p]
  IN \* the first success removes the entry
     /\ (FlushMarks(p) /\ pr.res.success) => Head(pr.queue).id \notin IdsOf(buffer')
     \* a failure adds one attempt
     /\ (FlushMarks(p) /\ ~pr.res.success) =>
          \E i \in 1..Len(buffer) :
            /\ buffer[i].id = Head(pr.queue).id
            /\ buffer'[i].id = buffer[i].id
            /\ buffer'[i].attempts = buffer[i].attempts + 1

\* C40: with the flush alarm firing one period after the other, no enqueue
\* and no overlapping writer, every pending entry eventually leaves the
\* pending state: its first successful attempt removes it, or it is marked
\* failed after exactly BUFFER_MAX_ATTEMPTS failed attempts, and a failed
\* entry is not attempted again.
C40_PendingLeaves ==
  /\ \A id \in LiveIds : PendingIn(buffer, id) ~> ~PendingIn(buffer, id)
  /\ []C40_Ceiling
  /\ [][/\ \A p \in Procs : C40_Step(p)
        /\ \A o \in NewFlushCalls : \A i \in FailedIn(buffer) : buffer[i].id # o.entry]_vars

\* one entry has been removed by its successful retry, and the other has
\* failed BUFFER_MAX_ATTEMPTS times and is marked failed
C40_Witness ==
  /\ AllIdle
  /\ EntryRetried.id \in RemovedBySuccess(obs)
  /\ Len(buffer) = 1
  /\ buffer[1].id = EntryReady.id
  /\ buffer[1].status = "failed"
  /\ buffer[1].attempts = BUFFER_MAX_ATTEMPTS

====
